---------------------------- MODULE Spec2Model ----------------------------
(***************************************************************************)
(* Mesh hierarchy and block orchestration of Athena++ (src/src/mesh.cpp).  *)
(*                                                                         *)
(* The module holds one state machine per subsystem of mesh.cpp, each with *)
(* its own specification over its own group of variables:                  *)
(*   SpecLB    Mesh::LoadBalancing                                         *)
(*   SpecTS    Mesh::NewTimeStep                                           *)
(*   SpecTK    Mesh::UpdateOneStep (SpecTKFair: with the loop kept running)*)
(*   SpecMS    Mesh::Mesh (fresh start), MeshBlock::SearchAndSetNeighbors  *)
(*   SpecUM    the same on uniform meshes, without refinement blocks       *)
(*   SpecRS    Mesh::Mesh (restart) on a file written from a mesh          *)
(*   SpecCK    the input checks at the head of both constructors           *)
(*   SpecMR    Mesh::MeshRefinement                                        *)
(*   SpecRC    allocation and release in the constructors and destructors  *)
(* Arrays keep the 0-based indices of the C++ code.  Real-valued costs and *)
(* times are modelled on an integer grid on which the floating-point       *)
(* operations used (sums, differences, comparison with a quotient) are     *)
(* exact.                                                                  *)
(***************************************************************************)
EXTENDS Integers, Sequences, FiniteSets, TLC

VARIABLES
    \* ---- Mesh globals written by LoadBalancing
    nranks,      \* Globals::nranks
    nbtotal,     \* Mesh::nbtotal
    costlist,    \* Mesh::costlist [0..nbtotal)
    ranklist,    \* Mesh::ranklist [0..nbtotal)
    nslist,      \* Mesh::nslist   [0..nranks)
    nblist,      \* Mesh::nblist   [0..nranks)
    lbpc,        \* "idle" | "new" (arrays allocated) | "balanced"
    \* ---- time-step state
    time,        \* Mesh::time
    tlim,        \* Mesh::tlim
    dt,          \* Mesh::dt
    dt_prev,     \* value of dt on entry of the last NewTimeStep call
    cfl2,        \* 2 * Mesh::cfl_number
    tspc,        \* "idle" | "ready" | "stepped" (NewTimeStep has returned)
    \* ---- task engine (UpdateOneStep)
    nlocal,      \* number of blocks in the local list, nbend - nbstart + 1
    ntasks,      \* TaskList::ntasks
    todo,        \* MeshBlock::num_tasks_todo of each local block
    armed,       \* per block: receives are posted (StartReceivingAll .. ClearBoundaryAll)
    nb,          \* local variable nb of UpdateOneStep
    pmb,         \* local variable pmb: index in the local list, nlocal = NULL
    upc,         \* "idle" | "ready" | "init" | "head" | "inner" | "clear"
    waits,       \* per block: invocations that will still find the awaited buffer missing
    reports,     \* per block: number of COMPLETE results in this step
    recalled,    \* DoOneTask was invoked on a block whose list was already complete
    stalled,     \* DoOneTask returned without running a task of an unfinished block
    returned,    \* UpdateOneStep has returned
    first_task,  \* MeshBlock::first_task of each local block
    finished_tasks, \* MeshBlock::finished_tasks[4] of each local block
    clears,      \* per block: number of ClearBoundaryAll calls in this step
    started,     \* DoOneTask has been invoked in this step
    \* ---- mesh construction (Mesh::Mesh, MeshBlock::SearchAndSetNeighbors)
    dim,         \* 1, 2 or 3
    nrbx1, nrbx2, nrbx3,   \* root grid
    root_level,
    current_level,
    mesh_bcs,    \* boundary tag of each of the six faces
    mhd,         \* build option: MAGNETIC_FIELDS_ENABLED || VISCOSITY
    tree,        \* MeshBlockTree: the set of the locations of its leaves
    multilevel,
    face_only,
    nregions,    \* refinement blocks of the input processed so far
    loclist,     \* location of block gid, 0-based
    neighbor,    \* per gid: the block's neighbor[0..nneighbor-1]
    nbuilt,      \* blocks constructed so far (over all ranks)
    mpc,         \* "idle" | "regions" | "blocks" | "built" | "tested" | "fatal"
    \* ---- restart (Mesh::Mesh from a restart file)
    wmesh,       \* the mesh that was running when the restart file was written
    resfile,     \* the restart file: header fields and the id list
    offset,      \* local array offset[] of the constructor
    nread,       \* id list records read so far
    nerr,        \* local nerr of the constructor
    my_rank,     \* Globals::my_rank
    nbstart, nbend,
    pblocks,     \* the MeshBlocks of this rank, in list order
    rpc,         \* "idle" | "mesh" | "file" | "list" | "balance" | "load" |
                 \* "restarted" | "tested" | "warned" | "fatal" | "crashed"
    test_flag,   \* argument test_flag of both constructors
    reported,    \* MeshTest has printed the mesh structure
    \* ---- Mesh::MeshRefinement
    refine_flag, \* MeshRefinement::refine_flag_ of block gid
    tnref, tnderef,
    lref,        \* gathered locations of the blocks flagged 1
    lderef,      \* gathered locations of the blocks flagged -1
    allocated,   \* lderef and clderef point to arrays (tnderef > minbl)
    clderef,     \* accepted parents, clderef[0..ctnd-1]
    fn,          \* loop variable n of the derefinement filter
    oob,         \* number of reads of lderef that were outside of the array
    recomputed,  \* gids of the blocks on which SearchAndSetNeighbors was called
    initialized, \* Initialize(2, pin) was called
    pending,     \* indices of areq[] with a collective started and not waited on
    mrpc,        \* "idle" | "entry" | "collect" | "filter" | "tree" | "free" |
                 \* "returned" | "crashed"
    \* ---- dynamic storage of Mesh and MeshBlock
    kind,        \* "fresh" | "restart": the constructor that runs
    live,        \* objects and arrays allocated with new and not deleted
    rblocks,     \* number of blocks of this rank, nbend - nbstart + 1
    nblk,        \* MeshBlocks constructed so far
    rcpc,        \* "idle" | "start" | "arrays" | "idlist" | "blocks" | "constructed" |
                 \* "test_returned" | "threw" | "destroyed" | "crashed"
    \* ---- input checks of the two constructors
    is_restart,  \* the constructor taking a restart file is running
    cfl10,       \* 10 * Mesh::cfl_number
    num_threads, \* Mesh::num_mesh_threads_
    mesh_size,   \* Mesh::mesh_size
    block_size,  \* local block_size (restart: the locals nx1, nx2, nx3)
    cerr,        \* "none" or the fatal error thrown
    cpc,         \* "idle" | "time" | "nx" | "cfl" | "extent" | "rat" | "block" |
                 \* "accepted" | "fatal" | "trap"
    \* ---- Mesh::Initialize
    res_flag,    \* argument res_flag: 0 cold start, 1 restart, 2 after refinement
    iblocks,     \* <<number of local blocks, MAGNETIC_FIELDS_ENABLED>>
    ipc,         \* "idle" | "ready" | the loop that runs | "returned"
    ipmb,        \* local variable pmb: index in the local list, the length = NULL
    oplog,       \* per block: the calls made on it in this call of Initialize
    stepped,     \* number of calls of NewTimeStep in this call of Initialize
    \* ---- one refinement block of the input (Mesh::Mesh, lines 270-396)
    region,      \* the level and the extents read from the block
    lrange,      \* <<lx1min, lx1max>>, <<lx2min, lx2max>>, <<lx3min, lx3max>>
    passed,      \* the locations handed to AddMeshBlock, in order
    rgpc         \* "idle" | "read" | "range" | "added"

lbVars == <<nranks, nbtotal, costlist, ranklist, nslist, nblist, lbpc>>
tsVars == <<time, tlim, dt, dt_prev, cfl2, tspc>>
tkVars == <<nlocal, ntasks, todo, armed, nb, pmb, upc, waits, reports, recalled,
            stalled, returned, first_task, finished_tasks, clears, started>>
msVars == <<dim, nrbx1, nrbx2, nrbx3, root_level, current_level, mesh_bcs, mhd, tree,
            multilevel, face_only, nregions, loclist, neighbor, nbuilt, mpc>>
rsVars == <<wmesh, resfile, offset, nread, nerr, my_rank, nbstart, nbend, pblocks, rpc>>
ckVars == <<is_restart, cfl10, num_threads, mesh_size, block_size, cerr, cpc>>
tfVars == <<test_flag, reported>>
mrVars == <<refine_flag, tnref, tnderef, lref, lderef, allocated, clderef, fn, oob,
            recomputed, initialized, pending, mrpc>>
rcVars == <<kind, live, rblocks, nblk, rcpc>>
inVars == <<res_flag, iblocks, ipc, ipmb, oplog, stepped>>
rgVars == <<region, lrange, passed, rgpc>>
vars == <<lbVars, tsVars, tkVars, msVars, rsVars, ckVars, tfVars, mrVars, rcVars,
         inVars, rgVars>>
notLB == <<tsVars, tkVars, msVars, rsVars, ckVars, tfVars, mrVars, rcVars, inVars,
         rgVars>>
notTS == <<lbVars, tkVars, msVars, rsVars, ckVars, tfVars, mrVars, rcVars, inVars,
         rgVars>>
notTK == <<lbVars, tsVars, msVars, rsVars, ckVars, tfVars, mrVars, rcVars, inVars,
         rgVars>>
notMS == <<tsVars, tkVars, rsVars, ckVars, mrVars, rcVars, inVars, rgVars>>
notRS == <<tsVars, tkVars, ckVars, mrVars, rcVars, inVars, rgVars>>
notCK == <<lbVars, tsVars, tkVars, rsVars, tfVars, mrVars, rcVars, inVars, rgVars>>
notMR == <<lbVars, tsVars, tkVars, msVars, rsVars, ckVars, tfVars, rcVars, inVars,
         rgVars>>
notRC == <<lbVars, tsVars, tkVars, msVars, rsVars, ckVars, mrVars, inVars, rgVars>>

--------------------------------------------------------------------------
(* Bounds of the model *)

MaxRanks == 4
MaxBlocks == 5
MaxUniformBlocks == 10
MaxCost == 3
MaxTime == 6
MaxDt == 4
MaxBlockDt == 3
MaxLocalTS == 2
MaxLocal == 3
MaxTasks == 2
MaxWaits == 2
MaxRoot == 3
MaxRefLev == 2
MaxRegions == 1
PointsPerBlock == 2
MaxMeshRanks == 2
MaxSplits == 2
MaxRestartBlocks == 5
MaxFlagBlocks == 5

--------------------------------------------------------------------------
(* Helpers *)

Min(a, b) == IF a <= b THEN a ELSE b

RECURSIVE SumTo(_, _)
\* f[0] + ... + f[n-1]
SumTo(f, n) == IF n <= 0 THEN 0 ELSE f[n-1] + SumTo(f, n-1)

\* contents of a freshly allocated int array (new int[n]): unspecified
GarbageVals == {-1, 0}

IdleLB ==
    /\ nranks = 1 /\ nbtotal = 0 /\ costlist = <<>> /\ ranklist = <<>>
    /\ nslist = <<>> /\ nblist = <<>> /\ lbpc = "idle"

IdleTS ==
    /\ time = 0 /\ tlim = 0 /\ dt = 0 /\ dt_prev = 0 /\ cfl2 = 0 /\ tspc = "idle"

IdleTK ==
    /\ nlocal = 0 /\ ntasks = 0 /\ todo = <<>> /\ armed = <<>> /\ nb = 0 /\ pmb = 0
    /\ upc = "idle" /\ waits = <<>> /\ reports = <<>> /\ recalled = FALSE
    /\ stalled = FALSE /\ returned = FALSE
    /\ first_task = <<>> /\ finished_tasks = <<>> /\ clears = <<>> /\ started = FALSE

IdleMS ==
    /\ dim = 1 /\ nrbx1 = 1 /\ nrbx2 = 1 /\ nrbx3 = 1 /\ root_level = 0
    /\ current_level = 0 /\ mesh_bcs = <<>> /\ mhd = FALSE /\ tree = {}
    /\ multilevel = FALSE /\ face_only = TRUE /\ nregions = 0 /\ loclist = <<>>
    /\ neighbor = <<>> /\ nbuilt = 0 /\ mpc = "idle"

IdleRS ==
    /\ wmesh = <<>> /\ resfile = <<>> /\ offset = <<>> /\ nread = 0 /\ nerr = 0
    /\ my_rank = 0
    /\ nbstart = 0 /\ nbend = 0 /\ pblocks = <<>> /\ rpc = "idle"

RegionSize0 ==
    [nx1 |-> 0, nx2 |-> 0, nx3 |-> 0, x1min |-> 0, x1max |-> 0, x2min |-> 0, x2max |-> 0,
     x3min |-> 0, x3max |-> 0, x1rat |-> 0, x2rat |-> 0, x3rat |-> 0]

IdleTF == test_flag = 0 /\ reported = FALSE

IdleRC == kind = "fresh" /\ live = {} /\ rblocks = 0 /\ nblk = 0 /\ rcpc = "idle"

IdleRG == region = <<>> /\ lrange = <<>> /\ passed = <<>> /\ rgpc = "idle"

IdleIN ==
    /\ res_flag = 0 /\ iblocks = <<0, FALSE>> /\ ipc = "idle" /\ ipmb = 0 /\ oplog = <<>>
    /\ stepped = 0

IdleMR ==
    /\ refine_flag = <<>> /\ tnref = 0 /\ tnderef = 0 /\ lref = <<>> /\ lderef = <<>>
    /\ allocated = FALSE /\ clderef = <<>> /\ fn = 0 /\ oob = 0 /\ recomputed = {}
    /\ initialized = FALSE /\ pending = {} /\ mrpc = "idle"

IdleCK ==
    /\ is_restart = FALSE /\ cfl10 = 0 /\ num_threads = 0 /\ mesh_size = RegionSize0
    /\ block_size = RegionSize0 /\ cerr = "none" /\ cpc = "idle"

--------------------------------------------------------------------------
(* Mesh::LoadBalancing, mesh.cpp 1603-1645 *)

\* mycost >= targetcost with targetcost = totalcost/(j+1)  (lines 1613, 1619, 1623);
\* the quotient is compared exactly
ReachedTargetStrict(mycost, totalcost, j) == mycost * (j + 1) > totalcost

ReachedTargetEarly(mycost, totalcost, j) == mycost * (j + 2) >= totalcost

ReachedTarget(mycost, totalcost, j) == mycost * (j + 1) >= totalcost

RECURSIVE RankSweep(_, _, _, _, _, _)
\* the loop of lines 1616-1625, from block i down to block 0
RankSweep(clist, i, j, mycost, totalcost, rlist) ==
    IF i < 0 THEN rlist
    ELSE LET c == mycost + clist[i]
             rl == [rlist EXCEPT ![i] = j]
         IN  IF ReachedTarget(c, totalcost, j) /\ j > 0
             THEN RankSweep(clist, i - 1, j - 1, 0, totalcost - c, rl)
             ELSE RankSweep(clist, i - 1, j, c, totalcost, rl)

RECURSIVE StartSweep(_, _, _, _, _, _)
\* the loop of lines 1628-1633; slist and the member nslist are the same array in
\* every call of the program, so line 1630 reads slist
StartSweep(rlist, n, i, j, slist, nlist) ==
    IF i >= n
    THEN [slist |-> slist, nlist |-> [nlist EXCEPT ![j] = n - slist[j]]]
    ELSE IF rlist[i] # rlist[i-1]
         THEN StartSweep(rlist, n, i + 1, j + 1,
                         [slist EXCEPT ![j + 1] = i],
                         [nlist EXCEPT ![j] = i - slist[j]])
         ELSE StartSweep(rlist, n, i + 1, j, slist, nlist)

\* LoadBalancing(clist, rlist, slist, nlist) on n blocks and nr ranks; rlist,
\* slist and nlist come in with their previous contents
LoadBalancing(clist, n, nr, rlist, slist, nlist) ==
    LET totalcost == SumTo(clist, n)
        rl == RankSweep(clist, n - 1, nr - 1, 0, totalcost, rlist)
        sn == StartSweep(rl, n, 1, 0, [slist EXCEPT ![0] = 0], nlist)
    IN  [rlist |-> rl, slist |-> sn.slist, nlist |-> sn.nlist]

\* cost vectors of the model: any vector on up to MaxBlocks blocks, and uniform
\* vectors on up to MaxUniformBlocks blocks
CostVectors(n) ==
    IF n <= MaxBlocks THEN [0..(n-1) -> 0..MaxCost]
    ELSE {[i \in 0..(n-1) |-> c] : c \in 1..MaxCost}

\* lines 437-443 / 632-637: the arrays are allocated, the costs are set
InitLB ==
    /\ nranks \in 1..MaxRanks
    /\ nbtotal \in 1..MaxUniformBlocks
    /\ costlist \in CostVectors(nbtotal)
    /\ \E g \in GarbageVals :
          /\ ranklist = [i \in 0..(nbtotal-1) |-> g]
          /\ nslist = [r \in 0..(nranks-1) |-> g]
          /\ nblist = [r \in 0..(nranks-1) |-> g]
    /\ lbpc = "new"

\* line 445 / 712: LoadBalancing(costlist, ranklist, nslist, nblist)
CallLoadBalancing ==
    /\ lbpc = "new"
    /\ LET r == LoadBalancing(costlist, nbtotal, nranks, ranklist, nslist, nblist)
       IN  /\ ranklist' = r.rlist
           /\ nslist' = r.slist
           /\ nblist' = r.nlist
    /\ lbpc' = "balanced"
    /\ UNCHANGED <<nranks, nbtotal, costlist>>
    /\ UNCHANGED notLB

NextLB == CallLoadBalancing

StartLB == InitLB /\ IdleTS /\ IdleTK /\ IdleMS /\ IdleRS /\ IdleCK /\ IdleTF /\ IdleMR
    /\ IdleRC /\ IdleIN /\ IdleRG

SpecLB == StartLB /\ [][NextLB]_vars

--------------------------------------------------------------------------
(* Claims on LoadBalancing (SpecLB) *)

Blocks == 0..(nbtotal-1)
Ranks == 0..(nranks-1)
BlocksOf(r) == {i \in Blocks : ranklist[i] = r}
CostOf(r) == SumTo([i \in Blocks |-> IF ranklist[i] = r THEN costlist[i] ELSE 0], nbtotal)
UniformCosts == \A i, k \in Blocks : costlist[i] = costlist[k]
PositiveCosts == \A i \in Blocks : costlist[i] > 0

\* C1: after LoadBalancing on nbtotal >= nranks >= 1 blocks with positive costs,
\* ranklist is non-decreasing with values in [0, nranks), the blocks of every
\* rank r are exactly the interval [nslist[r], nslist[r] + nblist[r]), and the
\* sum of nblist is nbtotal.
C1_PartitionDescribed ==
    (lbpc = "balanced" /\ nbtotal >= nranks /\ PositiveCosts) =>
        /\ \A i \in Blocks : ranklist[i] \in Ranks
        /\ \A i \in Blocks : i > 0 => ranklist[i-1] <= ranklist[i]
        /\ \A r \in Ranks :
              BlocksOf(r) = {i \in Blocks : nslist[r] <= i /\ i < nslist[r] + nblist[r]}
        /\ SumTo(nblist, nranks) = nbtotal

\* C2: with uniform (positive) costs and nbtotal >= nranks every rank gets
\* floor(nbtotal/nranks) or ceil(nbtotal/nranks) blocks, the counts are
\* non-decreasing in the rank index, nblist holds these counts, and 10 blocks on
\* 4 ranks give 2, 2, 3, 3.
C2_UniformCounts ==
    (lbpc = "balanced" /\ nbtotal >= nranks /\ UniformCosts /\ PositiveCosts) =>
        /\ \A r \in Ranks :
              /\ Cardinality(BlocksOf(r)) * nranks >= nbtotal - (nranks - 1)
              /\ Cardinality(BlocksOf(r)) * nranks <= nbtotal + (nranks - 1)
              /\ nblist[r] = Cardinality(BlocksOf(r))
        /\ \A r \in Ranks : r > 0 => nblist[r-1] <= nblist[r]
        /\ (nbtotal % nranks = 0) => \A r \in Ranks : nblist[r] * nranks = nbtotal
        /\ (nbtotal = 10 /\ nranks = 4) =>
              (nblist[0] = 2 /\ nblist[1] = 2 /\ nblist[2] = 3 /\ nblist[3] = 3)

C2_Witness ==
    /\ lbpc = "balanced" /\ nbtotal = 10 /\ nranks = 4 /\ UniformCosts /\ PositiveCosts
    /\ Cardinality(BlocksOf(0)) = 2 /\ Cardinality(BlocksOf(3)) = 3

\* C3: for a non-uniform vector of non-negative costs the cost of the blocks of
\* rank 0 is at most totalcost / nranks.
C3_Rank0AtMostAverage ==
    (lbpc = "balanced" /\ ~UniformCosts) =>
        CostOf(0) * nranks <= SumTo(costlist, nbtotal)

C3_Witness ==
    /\ lbpc = "balanced" /\ ~UniformCosts /\ nranks = 3
    /\ CostOf(0) > 0 /\ CostOf(0) * nranks < SumTo(costlist, nbtotal)

--------------------------------------------------------------------------
(* Mesh::NewTimeStep, mesh.cpp 1081-1098 *)

RECURSIVE MinBlockDt(_, _)
\* lines 1083-1089: the minimum of new_block_dt over the n local blocks
MinBlockDt(bdt, n) ==
    IF n = 1 THEN bdt[0] ELSE Min(bdt[n-1], MinBlockDt(bdt, n-1))

NewDtClampFirst(min_dt, c2, d, t, tl) ==
    LET d1 == IF t < tl /\ tl - t < d THEN tl - t ELSE d
    IN  Min((min_dt * c2) \div 2, 2 * d1)

\* lines 1094-1096: the new dt from the reduced block dt, cfl_number = c2/2,
\* the stored dt, time and tlim
NewDt(min_dt, c2, d, t, tl) ==
    LET d1 == Min((min_dt * c2) \div 2, 2 * d)
    IN  IF t < tl /\ tl - t < d1 THEN tl - t ELSE d1

\* new_block_dt takes even values, so that cfl_number * new_block_dt is on the grid
BlockDtVals == {2 * k : k \in 1..MaxBlockDt}

\* lines 78-82 (start_time and tlim are read unchecked) / 603-604 (time and dt of
\* a restart file)
InitTS ==
    /\ time \in 0..MaxTime
    /\ tlim \in 0..MaxTime
    /\ dt \in 1..MaxDt
    /\ dt_prev = dt
    /\ cfl2 \in {1, 2}
    /\ tspc = "ready"

NewTimeStep ==
    /\ tspc \in {"ready", "stepped"}
    /\ \E n \in 1..MaxLocalTS : \E new_block_dt \in [0..(n-1) -> BlockDtVals] :
          dt' = NewDt(MinBlockDt(new_block_dt, n), cfl2, dt, time, tlim)
    /\ dt_prev' = dt
    /\ tspc' = "stepped"
    /\ UNCHANGED <<time, tlim, cfl2>>
    /\ UNCHANGED notTS

NextTS == NewTimeStep

StartTS == InitTS /\ IdleLB /\ IdleTK /\ IdleMS /\ IdleRS /\ IdleCK /\ IdleTF /\ IdleMR
    /\ IdleRC /\ IdleIN /\ IdleRG

SpecTS == StartTS /\ [][NextTS]_vars

\* C4 (as claimed): after every call of NewTimeStep, dt <= 2 * dt_prev and
\* time + dt <= tlim.
C4_ClampAlways ==
    tspc = "stepped" => (dt <= 2 * dt_prev /\ time + dt <= tlim)

\* C4 (amended): after every call of NewTimeStep, dt <= 2 * dt_prev, and
\* time + dt <= tlim whenever time < tlim at the call.
C4_ClampBeforeLimit ==
    tspc = "stepped" => (dt <= 2 * dt_prev /\ (time < tlim => time + dt <= tlim))

C4_Witness ==
    /\ tspc = "stepped" /\ time < tlim /\ time + dt = tlim /\ dt < 2 * dt_prev
    /\ dt < cfl2

--------------------------------------------------------------------------
(* Mesh::UpdateOneStep, mesh.cpp 1215-1245 *)

Local == 0..(nlocal-1)

\* TaskList::DoOneTask(pmb) (task_list.cpp): a block with no task left has nothing
\* to run and is not reported COMPLETE again; otherwise either no task can run yet
\* (the awaited boundary buffer is missing) and nothing changes, or one task runs,
\* and the call that runs the last task reports COMPLETE
DoOneTask(ntodo, canrun) ==
    IF ntodo = 0 \/ ~canrun
    THEN [todo |-> ntodo, status |-> "IN_PROGRESS"]
    ELSE [todo |-> ntodo - 1,
          status |-> IF ntodo - 1 = 0 THEN "COMPLETE" ELSE "IN_PROGRESS"]

CountDownAlways(n, status) == n - 1

CountDownNever(n, status) == n

\* lines 1233-1234: if(ptlist->DoOneTask(pmb)==TL_COMPLETE) nb--;
CountDown(n, status) == IF status = "COMPLETE" THEN n - 1 ELSE n

ListEndEarly(p, n) == p >= n - 1

\* line 1221: while (pmb != NULL), pmb walking the list of nlocal blocks from pblock
ListEnd(p, n) == p = n

\* the state between two steps: the local list of lines 462-555 is built
InitTK ==
    /\ nlocal \in 0..MaxLocal
    /\ ntasks \in 1..MaxTasks
    /\ \E t \in {0, ntasks} : todo = [b \in Local |-> t]
    /\ armed = [b \in Local |-> FALSE]
    /\ waits = [b \in Local |-> 0]
    /\ reports = [b \in Local |-> 0]
    /\ nb = 0 /\ pmb = 0
    /\ upc = "ready"
    /\ recalled = FALSE /\ stalled = FALSE /\ returned = FALSE
    /\ first_task = [b \in Local |-> ntasks - todo[b]]
    /\ finished_tasks = [b \in Local |-> <<2^(ntasks - todo[b]) - 1, 0, 0, 0>>]
    /\ clears = [b \in Local |-> 0]
    /\ started = FALSE

\* lines 1217-1218
EnterStep ==
    /\ upc = "ready"
    /\ pmb' = 0
    /\ nb' = nlocal
    /\ waits' \in [Local -> 0..MaxWaits]
    /\ reports' = [b \in Local |-> 0]
    /\ recalled' = FALSE /\ stalled' = FALSE /\ returned' = FALSE
    /\ upc' = "init"
    /\ clears' = [b \in Local |-> 0]
    /\ started' = FALSE
    /\ UNCHANGED <<nlocal, ntasks, todo, armed, first_task, finished_tasks>>
    /\ UNCHANGED notTK

\* lines 1221-1227, one iteration
ResetBlock ==
    /\ upc = "init" /\ ~ListEnd(pmb, nlocal)
    /\ first_task' = [first_task EXCEPT ![pmb] = 0]
    /\ todo' = [todo EXCEPT ![pmb] = ntasks]
    /\ finished_tasks' = [finished_tasks EXCEPT ![pmb] = <<0, 0, 0, 0>>]
    /\ armed' = [armed EXCEPT ![pmb] = TRUE]
    /\ pmb' = pmb + 1
    /\ UNCHANGED <<nlocal, ntasks, nb, upc, waits, reports, recalled, stalled, returned,
                   clears, started>>
    /\ UNCHANGED notTK

\* line 1221 with pmb == NULL
EndReset ==
    /\ upc = "init" /\ ListEnd(pmb, nlocal)
    /\ upc' = "head"
    /\ UNCHANGED <<nlocal, ntasks, todo, armed, nb, pmb, waits, reports, recalled,
                   stalled, returned, first_task, finished_tasks, clears, started>>
    /\ UNCHANGED notTK

\* lines 1230-1231 and 1239: the test of the main loop
LoopHead ==
    /\ upc = "head"
    /\ pmb' = 0
    /\ upc' = IF nb > 0 THEN "inner" ELSE "clear"
    /\ UNCHANGED <<nlocal, ntasks, todo, armed, nb, waits, reports, recalled, stalled,
                   returned, first_task, finished_tasks, clears, started>>
    /\ UNCHANGED notTK

\* lines 1232-1235, one iteration
DoTask ==
    /\ upc = "inner" /\ pmb < nlocal
    /\ \E canrun \in BOOLEAN :
          /\ (~canrun /\ todo[pmb] > 0) => waits[pmb] > 0
          /\ (canrun /\ todo[pmb] > 0) => armed[pmb]
          /\ LET r == DoOneTask(todo[pmb], canrun)
             IN  /\ todo' = [todo EXCEPT ![pmb] = r.todo]
                 /\ nb' = CountDown(nb, r.status)
                 /\ reports' = [reports EXCEPT ![pmb] =
                                   IF r.status = "COMPLETE" THEN @ + 1 ELSE @]
                 /\ first_task' = [first_task EXCEPT ![pmb] =
                                      IF r.todo < todo[pmb] THEN @ + 1 ELSE @]
                 /\ finished_tasks' = [finished_tasks EXCEPT ![pmb] =
                        IF r.todo < todo[pmb]
                        THEN [@ EXCEPT ![1] = @ + 2^(first_task[pmb])] ELSE @]
          /\ waits' = [waits EXCEPT ![pmb] =
                          IF ~canrun /\ todo[pmb] > 0 THEN @ - 1 ELSE @]
          /\ stalled' = (stalled \/ (~canrun /\ todo[pmb] > 0))
    /\ recalled' = (recalled \/ todo[pmb] = 0)
    /\ started' = TRUE
    /\ pmb' = pmb + 1
    /\ UNCHANGED <<nlocal, ntasks, armed, upc, returned, clears>>
    /\ UNCHANGED notTK

\* line 1232 with pmb == NULL
EndRound ==
    /\ upc = "inner" /\ pmb = nlocal
    /\ upc' = "head"
    /\ UNCHANGED <<nlocal, ntasks, todo, armed, nb, pmb, waits, reports, recalled,
                   stalled, returned, first_task, finished_tasks, clears, started>>
    /\ UNCHANGED notTK

\* lines 1240-1243, one iteration
ClearBlock ==
    /\ upc = "clear" /\ pmb < nlocal
    /\ armed' = [armed EXCEPT ![pmb] = FALSE]
    /\ clears' = [clears EXCEPT ![pmb] = @ + 1]
    /\ pmb' = pmb + 1
    /\ UNCHANGED <<nlocal, ntasks, todo, nb, upc, waits, reports, recalled, stalled,
                   returned, first_task, finished_tasks, started>>
    /\ UNCHANGED notTK

\* line 1244
ReturnStep ==
    /\ upc = "clear" /\ pmb = nlocal
    /\ upc' = "ready"
    /\ returned' = TRUE
    /\ UNCHANGED <<nlocal, ntasks, todo, armed, nb, pmb, waits, reports, recalled,
                   stalled, first_task, finished_tasks, clears, started>>
    /\ UNCHANGED notTK

NextTK ==
    \/ EnterStep \/ ResetBlock \/ EndReset \/ LoopHead \/ DoTask \/ EndRound
    \/ ClearBlock \/ ReturnStep

StartTK == InitTK /\ IdleLB /\ IdleTS /\ IdleMS /\ IdleRS /\ IdleCK /\ IdleTF /\ IdleMR
    /\ IdleRC /\ IdleIN /\ IdleRG

SpecTK == StartTK /\ [][NextTK]_vars

\* the bookkeeping of block b as lines 1222-1225 leave it
FreshlyReset(b) ==
    /\ first_task[b] = 0 /\ todo[b] = ntasks
    /\ finished_tasks[b] = <<0, 0, 0, 0>> /\ armed[b]

\* C20: within UpdateOneStep, when DoOneTask is first invoked every local block has
\* first_task = 0, num_tasks_todo = ntasks, four zero finished_tasks words and its
\* receives armed; no DoOneTask runs during the reset loop; ClearBoundaryAll is
\* invoked on no block before the main loop has exited (nb <= 0), and on every
\* local block exactly once by the time the step returns.
C20_ResetBeforeTasksClearAfter ==
    /\ (upc \in {"head", "inner"} /\ ~started) => \A b \in Local : FreshlyReset(b)
    /\ upc = "init" => ~started
    /\ upc \in {"init", "head", "inner"} => \A b \in Local : clears[b] = 0
    /\ upc = "clear" =>
          /\ nb <= 0
          /\ \A b \in Local : clears[b] = IF b < pmb THEN 1 ELSE 0
    /\ (upc = "ready" /\ returned) => \A b \in Local : clears[b] = 1

C20_Witness ==
    /\ upc = "ready" /\ returned /\ started /\ stalled /\ nlocal >= 2 /\ ntasks >= 2
    /\ \A b \in Local : clears[b] = 1 /\ ~armed[b] /\ first_task[b] = ntasks

\* the rank's single thread keeps executing UpdateOneStep
SpecTKFair == StartTK /\ [][NextTK]_vars /\ WF_vars(NextTK)

InMainLoop == upc \in {"head", "inner"}
LeftMainLoop == upc = "clear" \/ (upc = "ready" /\ returned)

C6_StepReturns == (upc = "init") ~> (upc = "ready" /\ returned)

C6_Witness ==
    /\ upc = "ready" /\ returned /\ stalled /\ nlocal >= 2
    /\ \A b \in Local : waits[b] = 0 /\ todo[b] = 0

--------------------------------------------------------------------------
(* MeshBlockTree (meshblocktree.cpp): the tree is the set of its leaves; a   *)
(* node is interior when some leaf lies strictly below it                    *)

Loc(l, i, j, k) == [level |-> l, lx1 |-> i, lx2 |-> j, lx3 |-> k]

SetMin(S) == CHOOSE x \in S : \A y \in S : x <= y

AncestorAt(loc, l) ==
    Loc(l, loc.lx1 \div 2^(loc.level - l), loc.lx2 \div 2^(loc.level - l),
        loc.lx3 \div 2^(loc.level - l))

IsAncestor(a, loc) == a.level < loc.level /\ AncestorAt(loc, a.level) = a

IsInterior(t, loc) == \E f \in t : IsAncestor(loc, f)

\* MeshBlockTree::GetLeaf(ox, oy, oz): one level down into an octant
GetLeaf(loc, ox, oy, oz) == Loc(loc.level + 1, 2 * loc.lx1 + ox, 2 * loc.lx2 + oy,
                                2 * loc.lx3 + oz)

\* the sibling group created when a leaf is split
Children(loc, d) ==
    {GetLeaf(loc, i, j, k) : i \in {0, 1},
                             j \in (IF d >= 2 THEN {0, 1} ELSE {0}),
                             k \in (IF d = 3 THEN {0, 1} ELSE {0})}

\* MeshBlockTree::CreateRootGrid
CreateRootGrid(n1, n2, n3, rl) ==
    {Loc(rl, i, j, k) : i \in 0..(n1-1), j \in 0..(n2-1), k \in 0..(n3-1)}

\* MeshBlockTree::AddMeshBlock: descend to the location, splitting the leaf that
\* contains it until the location exists; a location that exists already (as a
\* leaf or above leaves), or that no leaf contains, changes nothing
RECURSIVE AddMeshBlock(_, _, _)
AddMeshBlock(t, rloc, d) ==
    LET above == {f \in t : IsAncestor(f, rloc)}
    IN  IF above = {} THEN t
        ELSE LET a == CHOOSE f \in above : TRUE
             IN  AddMeshBlock((t \ {a}) \cup Children(a, d), rloc, d)

\* MeshBlockTree::CountMeshBlock
CountMeshBlock(t) == Cardinality(t)

\* MeshBlockTree::GetMeshBlockList below one node: the leaves in traversal order
\* (octants with x1 fastest, then x2, then x3)
RECURSIVE Traverse(_, _, _)
Traverse(t, node, d) ==
    IF node \in t THEN <<node>>
    ELSE IF ~IsInterior(t, node) THEN <<>>
    ELSE Traverse(t, GetLeaf(node, 0, 0, 0), d) \o Traverse(t, GetLeaf(node, 1, 0, 0), d)
         \o (IF d >= 2
             THEN Traverse(t, GetLeaf(node, 0, 1, 0), d)
                  \o Traverse(t, GetLeaf(node, 1, 1, 0), d)
             ELSE <<>>)
         \o (IF d = 3
             THEN Traverse(t, GetLeaf(node, 0, 0, 1), d)
                  \o Traverse(t, GetLeaf(node, 1, 0, 1), d)
                  \o Traverse(t, GetLeaf(node, 0, 1, 1), d)
                  \o Traverse(t, GetLeaf(node, 1, 1, 1), d)
             ELSE <<>>)

\* MeshBlockTree::GetMeshBlockList from the root, which also assigns gid = index
GetMeshBlockList(t, d) ==
    LET list == Traverse(t, Loc(0, 0, 0, 0), d)
    IN  [i \in 0..(Len(list)-1) |-> list[i+1]]

\* MeshBlockTree::FindNeighbor: one axis of the neighbor's location; -1 = none
NeighborLx(lx, ox, n, bin, bout) ==
    IF lx + ox < 0 THEN (IF bin = "periodic" THEN n - 1 ELSE -1)
    ELSE IF lx + ox >= n THEN (IF bout = "periodic" THEN 0 ELSE -1)
    ELSE lx + ox

\* the leaf above loc, if any: the levels from the root grid down are tried
RECURSIVE LeafAbove(_, _, _)
LeafAbove(t, loc, l) ==
    IF l >= loc.level THEN {}
    ELSE IF AncestorAt(loc, l) \in t THEN {AncestorAt(loc, l)}
    ELSE LeafAbove(t, loc, l + 1)

\* MeshBlockTree::FindNeighbor: NULL, or the node at the neighbor's location: a
\* leaf of the same level, the coarser leaf that contains it, or an interior
\* node (flag = false) whose leaves are the finer neighbors
FindNeighbor(t, loc, ox1, ox2, ox3, bcs, rbx, rby, rbz, rl) ==
    LET sh == 2^(loc.level - rl)
        x == NeighborLx(loc.lx1, ox1, rbx * sh, bcs.inner_x1, bcs.outer_x1)
        y == NeighborLx(loc.lx2, ox2, rby * sh, bcs.inner_x2, bcs.outer_x2)
        z == NeighborLx(loc.lx3, ox3, rbz * sh, bcs.inner_x3, bcs.outer_x3)
        nl == Loc(loc.level, x, y, z)
        above == LeafAbove(t, nl, rl)
    IN  IF x < 0 \/ y < 0 \/ z < 0 THEN [null |-> TRUE, flag |-> FALSE, loc |-> nl]
        ELSE IF nl \in t THEN [null |-> FALSE, flag |-> TRUE, loc |-> nl]
        ELSE IF above # {}
             THEN [null |-> FALSE, flag |-> TRUE, loc |-> CHOOSE f \in above : TRUE]
        ELSE [null |-> FALSE, flag |-> FALSE, loc |-> nl]

--------------------------------------------------------------------------
(* Mesh::Mesh, fresh start, mesh.cpp 64-561 *)

BCTags == {"reflecting", "periodic"}

\* lines 202-207; a periodic tag is given to both faces of an axis (the tags are
\* validated by BoundaryValues); an unused axis keeps the default tag, and in 3D
\* the three axes are given the same tag
BCsOf(a, b, c) ==
    [inner_x1 |-> a, outer_x1 |-> a, inner_x2 |-> b, outer_x2 |-> b,
     inner_x3 |-> c, outer_x3 |-> c]

MeshBCs(d) ==
    CASE d = 1 -> {BCsOf(a, "reflecting", "reflecting") : a \in BCTags}
      [] d = 2 -> {BCsOf(a, b, "reflecting") : a \in BCTags, b \in BCTags}
      [] OTHER -> {BCsOf(a, a, a) : a \in BCTags}

\* lines 141-143, 236-238: dim and the root grid
RootGrids ==
    {<<1, n, 1, 1>> : n \in 1..MaxRoot} \cup {<<2, 2, 1, 1>>, <<3, 1, 1, 1>>}

\* line 247
RootLevelOf(nbmax) == SetMin({l \in 0..nbmax : 2^l >= nbmax})

Max(a, b) == IF a >= b THEN a ELSE b

\* positions along an axis are multiples of 1/PointsPerBlock of a root block,
\* the mesh spans [0, WidthOf(nrbx)]; MeshGeneratorX(r) = r * width (ratio 1)
WidthOf(n) == n * PointsPerBlock

\* lines 326-329: first l with MeshGeneratorX((l+1)/lxmax) > xmin
LogicalMin(xmin, w, lxmax) ==
    LET c == {l \in 0..(lxmax-1) : (l + 1) * w > xmin * lxmax}
    IN  IF c = {} THEN lxmax ELSE SetMin(c)

\* lines 330-333: first l >= lmin with MeshGeneratorX((l+1)/lxmax) >= xmax
LogicalMax(xmax, lmin, w, lxmax) ==
    LET c == {l \in lmin..(lxmax-1) : (l + 1) * w >= xmax * lxmax}
    IN  IF c = {} THEN Max(lmin, lxmax) ELSE SetMin(c)

\* lines 334-335
SnapDown(l) == IF l % 2 = 1 THEN l - 1 ELSE l
SnapUp(l) == IF l % 2 = 0 THEN l + 1 ELSE l

\* lines 324-361 for one axis: <<lxmin, lxmax>>; an inactive axis keeps <<0, 0>>
LogicalRange(active, xmin, xmax, n, ref_lev) ==
    IF ~active THEN <<0, 0>>
    ELSE LET lxmax == n * 2^ref_lev
             lmin == LogicalMin(xmin, WidthOf(n), lxmax)
             lmax == LogicalMax(xmax, lmin, WidthOf(n), lxmax)
         IN  <<SnapDown(lmin), SnapUp(lmax)>>

\* the number of iterations of for(i=lmin; i<lmax; i+=2)
Strides(r) == IF r[2] > r[1] THEN (r[2] - r[1] + 1) \div 2 ELSE 0

\* lines 367-393: the locations handed to AddMeshBlock, in loop order (i fastest)
RegionLocs(d, lrlev, r1, r2, r3) ==
    LET ni == Strides(r1)
        nj == IF d >= 2 THEN Strides(r2) ELSE 1
        nk == IF d = 3 THEN Strides(r3) ELSE 1
    IN  [q \in 1..(ni * nj * nk) |->
            Loc(lrlev, r1[1] + 2 * ((q - 1) % ni),
                IF d >= 2 THEN r2[1] + 2 * (((q - 1) \div ni) % nj) ELSE 0,
                IF d = 3 THEN r3[1] + 2 * ((q - 1) \div (ni * nj)) ELSE 0)]

RECURSIVE AddAll(_, _, _, _)
AddAll(t, locs, q, d) ==
    IF q > Len(locs) THEN t ELSE AddAll(AddMeshBlock(t, locs[q], d), locs, q + 1, d)

\* a pair xmin <= xmax inside the mesh (lines 309-321)
Extents(n) == {e \in (0..WidthOf(n)) \X (0..WidthOf(n)) : e[1] <= e[2]}

InitMS ==
    /\ \E g \in RootGrids :
          /\ dim = g[1] /\ nrbx1 = g[2] /\ nrbx2 = g[3] /\ nrbx3 = g[4]
          /\ root_level = RootLevelOf(Max(g[2], Max(g[3], g[4])))
          /\ current_level = RootLevelOf(Max(g[2], Max(g[3], g[4])))
          /\ tree = CreateRootGrid(g[2], g[3], g[4],
                                   RootLevelOf(Max(g[2], Max(g[3], g[4]))))
          /\ mesh_bcs \in MeshBCs(g[1])
    /\ mhd \in BOOLEAN
    /\ multilevel = FALSE /\ face_only = TRUE
    /\ nregions = 0 /\ loclist = <<>> /\ neighbor = <<>> /\ nbuilt = 0
    /\ mpc = "regions"
    /\ nranks \in 1..MaxMeshRanks
    /\ test_flag \in {0, nranks}
    /\ reported = FALSE
    /\ nbtotal = 0 /\ costlist = <<>> /\ ranklist = <<>> /\ nslist = <<>>
    /\ nblist = <<>> /\ lbpc = "new"

\* lines 272-394: one refinement block of the input
AddRegion ==
    /\ mpc = "regions" /\ nregions < MaxRegions
    /\ \E ref_lev \in 1..MaxRefLev, e1 \in Extents(nrbx1) :
       \E e2 \in (IF dim >= 2 THEN Extents(nrbx2) ELSE {<<0, 0>>}),
          e3 \in (IF dim = 3 THEN Extents(nrbx3) ELSE {<<0, 0>>}) :
          LET lrlev == ref_lev + root_level
              r1 == LogicalRange(TRUE, e1[1], e1[2], nrbx1, ref_lev)
              r2 == LogicalRange(dim >= 2, e2[1], e2[2], nrbx2, ref_lev)
              r3 == LogicalRange(dim = 3, e3[1], e3[2], nrbx3, ref_lev)
          IN  /\ current_level' = Max(current_level, lrlev)
              /\ tree' = AddAll(tree, RegionLocs(dim, lrlev, r1, r2, r3), 1, dim)
    /\ multilevel' = TRUE
    /\ nregions' = nregions + 1
    /\ UNCHANGED <<dim, nrbx1, nrbx2, nrbx3, root_level, mesh_bcs, mhd, face_only,
                   loclist, neighbor, nbuilt, mpc>>
    /\ UNCHANGED lbVars
    /\ UNCHANGED notMS
    /\ UNCHANGED tfVars

\* MeshBlockTree::gid of the node at loc: the index GetMeshBlockList gave a leaf;
\* an interior node was given none, g stands for what its field holds
GidOf(llist, loc, g) ==
    IF \E i \in DOMAIN llist : llist[i] = loc
    THEN CHOOSE i \in DOMAIN llist : llist[i] = loc
    ELSE g

\* lines 398-452: face_only, enumeration of the leaves, unit costs, LoadBalancing
Enumerate ==
    /\ mpc = "regions"
    /\ face_only' = ~(mhd \/ multilevel)
    /\ nbtotal' = CountMeshBlock(tree)
    /\ loclist' = GetMeshBlockList(tree, dim)
    /\ IF CountMeshBlock(tree) < nranks /\ test_flag = 0
       THEN /\ mpc' = "fatal"
            /\ UNCHANGED <<costlist, ranklist, nslist, nblist, lbpc, neighbor, reported>>
       ELSE /\ mpc' = IF test_flag > 0 THEN "tested" ELSE "blocks"
            /\ reported' = (test_flag > 0 /\ my_rank = 0)
            /\ costlist' = [i \in 0..(CountMeshBlock(tree)-1) |-> 1]
            /\ \E g \in GarbageVals :
                  LET n == CountMeshBlock(tree)
                      r == LoadBalancing([i \in 0..(n-1) |-> 1], n, nranks,
                                         [i \in 0..(n-1) |-> g],
                                         [i \in 0..(nranks-1) |-> g],
                                         [i \in 0..(nranks-1) |-> g])
                  IN  /\ ranklist' = r.rlist
                      /\ nslist' = r.slist
                      /\ nblist' = r.nlist
            /\ lbpc' = "balanced"
            /\ neighbor' = [i \in 0..(CountMeshBlock(tree)-1) |-> <<>>]
    /\ UNCHANGED <<dim, nrbx1, nrbx2, nrbx3, root_level, current_level, mesh_bcs, mhd,
                   tree, multilevel, nregions, nbuilt, nranks>>
    /\ UNCHANGED notMS
    /\ UNCHANGED test_flag

\* lines 468-541: the boundary tags of one block
BlockBCs(loc) ==
    LET sh == 2^(loc.level - root_level)
    IN  [inner_x1 |-> IF loc.lx1 = 0 THEN mesh_bcs.inner_x1 ELSE "internal",
         outer_x1 |-> IF loc.lx1 = nrbx1 * sh - 1 THEN mesh_bcs.outer_x1 ELSE "internal",
         inner_x2 |-> IF dim = 1 \/ loc.lx2 = 0 THEN mesh_bcs.inner_x2 ELSE "internal",
         outer_x2 |-> IF dim = 1 \/ loc.lx2 = nrbx2 * sh - 1
                      THEN mesh_bcs.outer_x2 ELSE "internal",
         inner_x3 |-> IF dim <= 2 \/ loc.lx3 = 0 THEN mesh_bcs.inner_x3 ELSE "internal",
         outer_x3 |-> IF dim <= 2 \/ loc.lx3 = nrbx3 * sh - 1
                      THEN mesh_bcs.outer_x3 ELSE "internal"]

--------------------------------------------------------------------------
(* MeshBlock::SearchAndSetNeighbors, mesh.cpp 1295-1552 *)

\* the directions in the order the function visits them (n innermost)
FaceDirs(d) ==
    << <<-1, 0, 0>>, <<1, 0, 0>> >>
    \o (IF d >= 2 THEN << <<0, -1, 0>>, <<0, 1, 0>> >> ELSE <<>>)
    \o (IF d = 3 THEN << <<0, 0, -1>>, <<0, 0, 1>> >> ELSE <<>>)

EdgeDirsX1X2 == << <<-1, -1, 0>>, <<1, -1, 0>>, <<-1, 1, 0>>, <<1, 1, 0>> >>
EdgeDirsX1X3 == << <<-1, 0, -1>>, <<1, 0, -1>>, <<-1, 0, 1>>, <<1, 0, 1>> >>
EdgeDirsX2X3 == << <<0, -1, -1>>, <<0, 1, -1>>, <<0, -1, 1>>, <<0, 1, 1>> >>
CornerDirs ==
    << <<-1, -1, -1>>, <<1, -1, -1>>, <<-1, 1, -1>>, <<1, 1, -1>>,
       <<-1, -1, 1>>, <<1, -1, 1>>, <<-1, 1, 1>>, <<1, 1, 1>> >>

DirectionsAll(d, fo) ==
    FaceDirs(d)
    \o (IF d = 1 THEN <<>>
        ELSE EdgeDirsX1X2
             \o (IF d = 3 THEN EdgeDirsX1X3 \o EdgeDirsX2X3 \o CornerDirs ELSE <<>>))

\* lines 1353, 1385, 1418, 1455: the early returns
Directions(d, fo) ==
    FaceDirs(d)
    \o (IF d = 1 \/ fo THEN <<>>
        ELSE EdgeDirsX1X2
             \o (IF d = 3 THEN EdgeDirsX1X3 \o EdgeDirsX2X3 \o CornerDirs ELSE <<>>))

Abs(x) == IF x < 0 THEN -x ELSE x

NeighborType(o) ==
    CASE Abs(o[1]) + Abs(o[2]) + Abs(o[3]) = 1 -> "neighbor_face"
      [] Abs(o[1]) + Abs(o[2]) + Abs(o[3]) = 2 -> "neighbor_edge"
      [] OTHER -> "neighbor_corner"

\* lines 1307-1311
Nf1(d, ml) == IF ml /\ d >= 2 THEN 2 ELSE 1
Nf2(d, ml) == IF ml /\ d = 3 THEN 2 ELSE 1

\* the number of buffer ids of a direction: nf1*nf2 for a face, nf2 for an
\* x1x2 edge, nf1 for an x1x3 or x2x3 edge, 1 for a corner
Slots(o, d, ml) ==
    CASE NeighborType(o) = "neighbor_face" -> Nf1(d, ml) * Nf2(d, ml)
      [] NeighborType(o) = "neighbor_edge" /\ o[3] = 0 -> Nf2(d, ml)
      [] NeighborType(o) = "neighbor_edge" /\ o[3] # 0 -> Nf1(d, ml)
      [] OTHER -> 1

\* the extent of the f1 loop over the finer neighbors of a direction
F1Count(o, d, ml) ==
    CASE NeighborType(o) = "neighbor_face" -> Nf1(d, ml)
      [] OTHER -> Slots(o, d, ml)

\* 1-(n+1)/2: 0 for an outer face, 1 for an inner face
FineSide(n) == 1 - (n + 1) \div 2

\* the arguments of GetLeaf for the finer neighbor (f1, f2) of direction o
LeafArgs(o, f1, f2) ==
    << IF o[1] # 0 THEN FineSide(o[1]) ELSE f1,
       IF o[2] # 0 THEN FineSide(o[2]) ELSE (IF o[1] = 0 THEN f2 ELSE f1),
       IF o[3] # 0 THEN FineSide(o[3]) ELSE (IF o[1] # 0 /\ o[2] # 0 THEN f1 ELSE f2) >>

\* lines 1302-1304
MyOx(loc, d) ==
    << (loc.lx1 % 2) * 2 - 1,
       IF d >= 2 THEN (loc.lx2 % 2) * 2 - 1 ELSE 0,
       IF d = 3 THEN (loc.lx3 % 2) * 2 - 1 ELSE 0 >>

\* lines 1446, 1482, 1517, 1540: this block is the sibling that touches the edge
\* or corner
TouchesDirection(loc, o, d) ==
    \A a \in 1..3 : o[a] # 0 => MyOx(loc, d)[a] = o[a]

\* NeighborBlock::SetNeighbor
SetNeighbor(rlist, slist, nlevel, gid, o, id, f1, f2, g) ==
    LET rk == IF gid \in DOMAIN rlist THEN rlist[gid] ELSE g
    IN  [rank |-> rk, level |-> nlevel, gid |-> gid,
         lid |-> IF rk \in DOMAIN slist THEN gid - slist[rk] ELSE g,
         ox1 |-> o[1], ox2 |-> o[2], ox3 |-> o[3], type |-> NeighborType(o),
         bufid |-> id, fi1 |-> f1, fi2 |-> f2]

NullAdvanceNone(n) == 0

\* lines 1325, 1357, 1389, 1424, 1460, 1495, 1531: bufid += ... on a NULL neighbor
NullAdvance(n) == n

\* the records of the finer neighbors of one direction, f1 innermost
FinerRecords(neibt, o, d, ml, llist, rlist, slist, bufid, g) ==
    [q \in 1..Slots(o, d, ml) |->
        LET f1 == (q - 1) % F1Count(o, d, ml)
            f2 == (q - 1) \div F1Count(o, d, ml)
            a == LeafArgs(o, f1, f2)
            nf == GetLeaf(neibt.loc, a[1], a[2], a[3])
        IN  SetNeighbor(rlist, slist, nf.level, GidOf(llist, nf, g), o,
                        bufid + q - 1, f1, f2, g)]

\* one iteration of one of the loops over n (m, l): [neighbor, bufid] after it
SearchDirection(t, loc, o, d, ml, llist, rlist, slist, acc, g) ==
    LET neibt == FindNeighbor(t, loc, o[1], o[2], o[3], BlockBCs(loc), nrbx1, nrbx2,
                              nrbx3, root_level)
        n == Slots(o, d, ml)
    IN  IF neibt.null
        THEN [neighbor |-> acc.neighbor, bufid |-> acc.bufid + NullAdvance(n)]
        ELSE IF ~neibt.flag /\ NeighborType(o) # "neighbor_corner"
        THEN [neighbor |-> acc.neighbor
                           \o FinerRecords(neibt, o, d, ml, llist, rlist, slist,
                                           acc.bufid, g),
              bufid |-> acc.bufid + n]
        ELSE LET a == LeafArgs(o, 0, 0)
                 nd == IF neibt.flag THEN neibt.loc
                       ELSE GetLeaf(neibt.loc, a[1], a[2], a[3])
                 rec == SetNeighbor(rlist, slist, nd.level, GidOf(llist, nd, g), o,
                                    acc.bufid, 0, 0, g)
             IN  [neighbor |-> IF \/ NeighborType(o) = "neighbor_face"
                                  \/ nd.level >= loc.level
                                  \/ TouchesDirection(loc, o, d)
                               THEN Append(acc.neighbor, rec) ELSE acc.neighbor,
                  bufid |-> acc.bufid + n]

RECURSIVE SearchFrom(_, _, _, _, _, _, _, _, _, _, _)
SearchFrom(t, loc, dirs, q, d, ml, llist, rlist, slist, acc, g) ==
    IF q > Len(dirs) THEN acc
    ELSE SearchFrom(t, loc, dirs, q + 1, d, ml, llist, rlist, slist,
                    SearchDirection(t, loc, dirs[q], d, ml, llist, rlist, slist, acc, g),
                    g)

SearchAndSetNeighbors(t, loc, rlist, slist, g) ==
    SearchFrom(t, loc, Directions(dim, face_only), 1, dim, multilevel, loclist, rlist,
               slist, [neighbor |-> <<>>, bufid |-> 0], g)

\* lines 462-555, one iteration (taken over the blocks of all ranks)
BuildBlock ==
    /\ mpc = "blocks" /\ nbuilt < nbtotal
    /\ \E g \in GarbageVals :
          neighbor' = [neighbor EXCEPT ![nbuilt] =
              SearchAndSetNeighbors(tree, loclist[nbuilt], ranklist, nslist, g).neighbor]
    /\ nbuilt' = nbuilt + 1
    /\ UNCHANGED <<dim, nrbx1, nrbx2, nrbx3, root_level, current_level, mesh_bcs, mhd,
                   tree, multilevel, face_only, nregions, loclist, mpc>>
    /\ UNCHANGED lbVars
    /\ UNCHANGED notMS
    /\ UNCHANGED tfVars

\* line 556: every block is built
FinishBlocks ==
    /\ mpc = "blocks" /\ nbuilt = nbtotal
    /\ mpc' = "built"
    /\ UNCHANGED <<dim, nrbx1, nrbx2, nrbx3, root_level, current_level, mesh_bcs, mhd,
                   tree, multilevel, face_only, nregions, loclist, neighbor, nbuilt>>
    /\ UNCHANGED lbVars
    /\ UNCHANGED notMS
    /\ UNCHANGED tfVars

NextMS == AddRegion \/ Enumerate \/ BuildBlock \/ FinishBlocks

StartMS == InitMS /\ IdleTS /\ IdleTK /\ IdleRS /\ IdleCK /\ IdleMR
    /\ IdleRC /\ IdleIN /\ IdleRG

SpecMS == StartMS /\ [][NextMS]_vars

Gids == DOMAIN neighbor

\* two leaves share a face, an edge or a corner: their closed boxes, taken at the
\* finest level, meet, directly or across a periodic boundary of the mesh
Touching(a, b) ==
    LET top == Max(a.level, b.level)
        lo(f, x) == x * 2^(top - f.level)
        hi(f, x) == (x + 1) * 2^(top - f.level)
        meet(xa, xb, n, tag) ==
            \/ lo(a, xa) <= hi(b, xb) /\ lo(b, xb) <= hi(a, xa)
            \/ /\ tag = "periodic"
               /\ \/ lo(a, xa) = 0 /\ hi(b, xb) = n * 2^(top - root_level)
                  \/ lo(b, xb) = 0 /\ hi(a, xa) = n * 2^(top - root_level)
    IN  /\ a # b
        /\ meet(a.lx1, b.lx1, nrbx1, mesh_bcs.inner_x1)
        /\ meet(a.lx2, b.lx2, nrbx2, mesh_bcs.inner_x2)
        /\ meet(a.lx3, b.lx3, nrbx3, mesh_bcs.inner_x3)

LevelBalanced(t) ==
    \A a \in t : \A b \in t :
        (a.level > b.level + 1) => ~Touching(a, b)

HasListed(b, a, o1, o2, o3) ==
    \E j \in 1..Len(neighbor[b]) :
        /\ neighbor[b][j].gid = a
        /\ neighbor[b][j].ox1 = o1 /\ neighbor[b][j].ox2 = o2 /\ neighbor[b][j].ox3 = o3

Symmetric ==
    \A a \in Gids : \A i \in 1..Len(neighbor[a]) :
        neighbor[a][i].gid \in Gids =>
            HasListed(neighbor[a][i].gid, a, -neighbor[a][i].ox1, -neighbor[a][i].ox2,
                      -neighbor[a][i].ox3)

\* C7: after SearchAndSetNeighbors has run on every block of the mesh, whenever
\* block A lists block B as its neighbor in direction (ox1, ox2, ox3), block B
\* lists block A in direction (-ox1, -ox2, -ox3).
C7_NeighborSymmetry == mpc = "built" => Symmetric

\* the same on the meshes whose leaves are level balanced
C7_SymmetryIfBalanced == (mpc = "built" /\ LevelBalanced(tree)) => Symmetric

\* the records i.. of the list nbs carry the slots of their directions, which are
\* among the directions q.. of dirs, the first of them owning the ids from base on
RECURSIVE InFixedSlots(_, _, _, _, _, _, _)
InFixedSlots(nbs, i, dirs, q, base, d, ml) ==
    IF i > Len(nbs) THEN TRUE
    ELSE IF q > Len(dirs) THEN FALSE
    ELSE IF <<nbs[i].ox1, nbs[i].ox2, nbs[i].ox3>> = dirs[q]
         THEN /\ nbs[i].bufid = base + nbs[i].fi1 + F1Count(dirs[q], d, ml) * nbs[i].fi2
              /\ nbs[i].bufid < base + Slots(dirs[q], d, ml)
              /\ i > 1 => nbs[i-1].bufid < nbs[i].bufid
              /\ InFixedSlots(nbs, i + 1, dirs, q, base, d, ml)
         ELSE InFixedSlots(nbs, i, dirs, q + 1, base + Slots(dirs[q], d, ml), d, ml)

BufIds(b) == {neighbor[b][i].bufid : i \in 1..Len(neighbor[b])}

\* C8 (as claimed): for each block the stored buffer ids are exactly
\* 0..nneighbor-1.
C8_ContiguousPrefix ==
    mpc = "built" => \A b \in Gids : BufIds(b) = 0..(Len(neighbor[b]) - 1)

\* C8 (amended): the buffer id stored for a neighbor is the fixed slot of its
\* direction, the number of slots of the directions visited before it, plus the
\* index of the finer neighbor within the direction; the stored ids increase
\* along the list and stay within the slots of the visited directions.
C8_FixedSlots ==
    mpc = "built" =>
        \A b \in Gids :
            InFixedSlots(neighbor[b], 1, Directions(dim, face_only), 1, 0, dim, multilevel)

C8_Witness ==
    /\ mpc = "built" /\ multilevel /\ dim >= 2
    /\ \E b \in Gids :
          /\ BufIds(b) # 0..(Len(neighbor[b]) - 1)
          /\ \E i \in 1..Len(neighbor[b]) : neighbor[b][i].level > loclist[b].level
          /\ \E i \in 1..Len(neighbor[b]) : neighbor[b][i].level < loclist[b].level
          /\ Len(neighbor[b]) < Len(Directions(dim, face_only))

\* C9: after the fresh construction, with any accepted refinement regions, any
\* two leaves that share a face, an edge or a corner differ by at most one
\* level.
C9_LevelBalance == mpc = "built" => LevelBalanced(tree)

--------------------------------------------------------------------------
(* Mesh::Mesh from a restart file, mesh.cpp 567-752 *)

\* MeshBlockTree::AddMeshBlockWithoutRefine: the leaf is created on its path,
\* nothing is split
AddMeshBlockWithoutRefine(t, loc) == t \cup {loc}

RECURSIVE RebuildFrom(_, _, _, _)
RebuildFrom(t, llist, i, n) ==
    IF i >= n THEN t
    ELSE RebuildFrom(AddMeshBlockWithoutRefine(t, llist[i]), llist, i + 1, n)

\* the locations of the levels above the root grid, as far as MaxRefLev
FinerLocs(d, n1, n2, n3, rl) ==
    UNION {{Loc(rl + k, i, j, l) : i \in 0..(n1 * 2^k - 1),
                                   j \in 0..((IF d >= 2 THEN n2 * 2^k ELSE 1) - 1),
                                   l \in 0..((IF d = 3 THEN n3 * 2^k ELSE 1) - 1)} :
           k \in 1..MaxRefLev}

\* the trees a running mesh can have: the root grid after at most k additions
RECURSIVE TreesWithin(_, _, _, _, _, _)
TreesWithin(k, d, n1, n2, n3, rl) ==
    IF k = 0 THEN {CreateRootGrid(n1, n2, n3, rl)}
    ELSE LET T == TreesWithin(k - 1, d, n1, n2, n3, rl)
         IN  T \cup {AddMeshBlock(t, l, d) : t \in T, l \in FinerLocs(d, n1, n2, n3, rl)}

RestartGrids == {<<1, 1, 1, 1>>, <<1, 2, 1, 1>>, <<1, 3, 1, 1>>, <<2, 2, 1, 1>>}

\* where the payload of block gid lies: the payloads follow the id list in gid
\* order (restart output)
PayloadOffset(gid, n) == n + gid

\* the block whose payload lies at an offset
PayloadAt(off, n) == off - n

\* the id list as the restart output writes it: one record per block, in gid
\* order
WriteIdList(llist, clist, n) ==
    [i \in 0..(n-1) |->
        [gid |-> i, loc |-> llist[i], cost |-> clist[i], offset |-> PayloadOffset(i, n)]]

\* a mesh is running: every block has the cost 1.0 of lines 443 and 897
InitRS ==
    /\ \E g \in RestartGrids :
          /\ dim = g[1] /\ nrbx1 = g[2] /\ nrbx2 = g[3] /\ nrbx3 = g[4]
          /\ \E t \in {u \in TreesWithin(MaxSplits, g[1], g[2], g[3], g[4],
                                           RootLevelOf(Max(g[2], Max(g[3], g[4])))) :
                           CountMeshBlock(u) <= MaxRestartBlocks} :
                wmesh = [root_level |-> RootLevelOf(Max(g[2], Max(g[3], g[4]))),
                         nbtotal |-> CountMeshBlock(t),
                         loclist |-> GetMeshBlockList(t, g[1]),
                         costlist |-> [i \in 0..(CountMeshBlock(t)-1) |-> 1]]
    /\ mesh_bcs = BCsOf("reflecting", "reflecting", "reflecting")
    /\ mhd \in BOOLEAN
    /\ nranks \in 1..MaxMeshRanks
    /\ test_flag \in {0, nranks}
    /\ reported = FALSE
    /\ my_rank \in 0..(nranks-1)
    /\ root_level = 0 /\ current_level = 0 /\ tree = {} /\ multilevel = FALSE
    /\ face_only = TRUE /\ nregions = 0 /\ loclist = <<>> /\ neighbor = <<>>
    /\ nbuilt = 0 /\ mpc = "idle"
    /\ nbtotal = 0 /\ costlist = <<>> /\ ranklist = <<>> /\ nslist = <<>>
    /\ nblist = <<>> /\ lbpc = "new"
    /\ resfile = <<>> /\ offset = <<>> /\ nread = 0 /\ nerr = 0 /\ nbstart = 0
    /\ nbend = 0 /\ pblocks = <<>> /\ rpc = "mesh"

\* the fields of the header (598-603), of one record of the id list (656-661)
\* and of one payload (981-982, 1037-1050), in the order they are read
HeaderFields == <<"nbtotal", "root_level", "mesh_size", "mesh_bcs", "time", "dt", "ncycle">>
RecordFields == <<"gid", "loc", "cost", "offset">>
PayloadParts(fields) ==
    IF fields THEN <<"block_size", "block_bcs", "u", "b">>
    ELSE <<"block_size", "block_bcs", "u">>

\* a file as it is found: whole, or ending early at some field
NoCut == [at |-> "none", i |-> 0, f |-> 0]
Cuts(n, fields) ==
    {NoCut}
    \cup {[at |-> "header", i |-> 0, f |-> k] : k \in DOMAIN HeaderFields}
    \cup {[at |-> "idlist", i |-> i, f |-> k] : i \in 0..(n-1), k \in DOMAIN RecordFields}
    \cup {[at |-> "payload", i |-> i, f |-> k] :
              i \in 0..(n-1), k \in DOMAIN PayloadParts(fields)}

\* a file whose second record repeats the location of the first
Damage(idl) == [idl EXCEPT ![1].loc = idl[0].loc]

\* IOWrapper::Read returns less than asked for: the field lies at or behind the
\* end of the file
ShortHeader(c, k) == c.at = "header" /\ c.f <= k
ShortRecord(c, i, k) ==
    \/ c.at = "header"
    \/ c.at = "idlist" /\ (c.i < i \/ (c.i = i /\ c.f <= k))
ShortPayload(c, g, k) ==
    \/ c.at \in {"header", "idlist"}
    \/ c.at = "payload" /\ (c.i < g \/ (c.i = g /\ c.f <= k))

\* the restart output: header and id list; the file as the reader finds it
WriteRestart ==
    /\ rpc = "mesh"
    /\ \E c \in Cuts(wmesh.nbtotal, mhd), dup \in BOOLEAN :
          /\ dup => (c.at = "none" /\ wmesh.nbtotal >= 2)
          /\ resfile' = [nbtotal |-> wmesh.nbtotal, root_level |-> wmesh.root_level,
                         idlist |-> IF dup
                                    THEN Damage(WriteIdList(wmesh.loclist, wmesh.costlist,
                                                            wmesh.nbtotal))
                                    ELSE WriteIdList(wmesh.loclist, wmesh.costlist,
                                                     wmesh.nbtotal),
                         cut |-> c, damaged |-> dup]
    /\ rpc' = "file"
    /\ UNCHANGED <<wmesh, offset, nread, nerr, my_rank, nbstart, nbend, pblocks>>
    /\ UNCHANGED <<lbVars, msVars, notRS>>
    /\ UNCHANGED tfVars

BrokenNever(n) == FALSE

\* lines 604, 665, 984 and 1052: if(nerr>0)
Broken(n) == n > 0

\* lines 596-636: the header, and the arrays allocated
ReadHeader ==
    /\ rpc = "file"
    /\ LET n == Cardinality({k \in DOMAIN HeaderFields : ShortHeader(resfile.cut, k)})
       IN  IF Broken(n)
           THEN /\ nerr' = n
                /\ rpc' = "fatal"
                /\ UNCHANGED <<nbtotal, root_level, current_level, loclist, offset,
                               costlist, ranklist, nslist, nblist>>
           ELSE /\ nerr' = 0
                /\ nbtotal' = resfile.nbtotal
                /\ root_level' = resfile.root_level
                /\ current_level' = resfile.root_level
                /\ \E g \in GarbageVals :
                      /\ loclist' = [i \in 0..(resfile.nbtotal-1) |-> Loc(g, g, g, g)]
                      /\ offset' = [i \in 0..(resfile.nbtotal-1) |-> g]
                      /\ costlist' = [i \in 0..(resfile.nbtotal-1) |-> g]
                      /\ ranklist' = [i \in 0..(resfile.nbtotal-1) |-> g]
                      /\ nslist' = [i \in 0..(nranks-1) |-> g]
                      /\ nblist' = [i \in 0..(nranks-1) |-> g]
                /\ rpc' = "list"
    /\ nread' = 0
    /\ UNCHANGED <<wmesh, resfile, my_rank, nbstart, nbend, pblocks>>
    /\ UNCHANGED <<nranks, lbpc, dim, nrbx1, nrbx2, nrbx3, mesh_bcs, mhd, tree, multilevel,
                   face_only, nregions, neighbor, nbuilt, mpc>>
    /\ UNCHANGED notRS
    /\ UNCHANGED tfVars

\* lines 654-664, one iteration: the record's gid is read and not used
ReadRecord ==
    /\ rpc = "list" /\ nread < nbtotal
    /\ nerr' = nerr + Cardinality({k \in DOMAIN RecordFields :
                                       ShortRecord(resfile.cut, nread, k)})
    /\ loclist' = IF ShortRecord(resfile.cut, nread, 2) THEN loclist
                  ELSE [loclist EXCEPT ![nread] = resfile.idlist[nread].loc]
    /\ multilevel' = (multilevel \/ loclist'[nread].level # root_level)
    /\ current_level' = Max(current_level, loclist'[nread].level)
    /\ costlist' = IF ShortRecord(resfile.cut, nread, 3) THEN costlist
                   ELSE [costlist EXCEPT ![nread] = resfile.idlist[nread].cost]
    /\ offset' = IF ShortRecord(resfile.cut, nread, 4) THEN offset
                 ELSE [offset EXCEPT ![nread] = resfile.idlist[nread].offset]
    /\ nread' = nread + 1
    /\ UNCHANGED <<wmesh, resfile, my_rank, nbstart, nbend, pblocks, rpc>>
    /\ UNCHANGED <<nranks, nbtotal, ranklist, nslist, nblist, lbpc, dim, nrbx1, nrbx2,
                   nrbx3, root_level, mesh_bcs, mhd, tree, face_only, nregions, neighbor,
                   nbuilt, mpc>>
    /\ UNCHANGED notRS
    /\ UNCHANGED tfVars

\* lines 665-693: the check of nerr, face_only, the tree rebuilt from the locations read, and the
\* enumeration that assigns gid and rewrites loclist
RebuildTree ==
    /\ rpc = "list" /\ nread = nbtotal
    /\ IF Broken(nerr)
       THEN rpc' = "fatal" /\ UNCHANGED <<face_only, tree, loclist>>
       ELSE /\ face_only' = ~(mhd \/ multilevel)
            /\ tree' = RebuildFrom(tree, loclist, 0, nbtotal)
            /\ loclist' = GetMeshBlockList(RebuildFrom(tree, loclist, 0, nbtotal), dim)
            /\ rpc' = IF CountMeshBlock(RebuildFrom(tree, loclist, 0, nbtotal)) # nbtotal
                      THEN "fatal" ELSE "balance"
    /\ UNCHANGED <<wmesh, resfile, offset, nread, nerr, my_rank, nbstart, nbend, pblocks>>
    /\ UNCHANGED <<lbVars, dim, nrbx1, nrbx2, nrbx3, root_level, current_level, mesh_bcs,
                   mhd, multilevel, nregions, neighbor, nbuilt, mpc>>
    /\ UNCHANGED notRS
    /\ UNCHANGED tfVars

\* lines 695-720: too few blocks, LoadBalancing, nbstart and nbend
BalanceRestart ==
    /\ rpc = "balance"
    /\ IF nbtotal < nranks
       THEN /\ rpc' = IF test_flag = 0 THEN "fatal" ELSE "warned"
            /\ UNCHANGED <<ranklist, nslist, nblist, lbpc, nbstart, nbend, reported>>
       ELSE LET r == LoadBalancing(costlist, nbtotal, nranks, ranklist, nslist, nblist)
            IN  /\ ranklist' = r.rlist
                /\ nslist' = r.slist
                /\ nblist' = r.nlist
                /\ lbpc' = "balanced"
                /\ nbstart' = r.slist[my_rank]
                /\ nbend' = IF my_rank + 1 = nranks THEN nbtotal - 1
                            ELSE r.slist[my_rank + 1] - 1
                /\ reported' = (test_flag > 0 /\ my_rank = 0)
                /\ rpc' = IF test_flag > 0 THEN "tested" ELSE "load"
    /\ UNCHANGED <<wmesh, resfile, offset, nread, nerr, my_rank, pblocks>>
    /\ UNCHANGED <<nranks, nbtotal, costlist, msVars>>
    /\ UNCHANGED notRS
    /\ UNCHANGED test_flag

PayloadIndexLocal(i, nbs) == i - nbs

\* lines 732-739: the block i is handed offset[i]
PayloadIndex(i, nbs) == i

\* lines 729-745, one iteration, with the MeshBlock constructor 959-1058: the
\* payload of block i is read where the writer put it, and the neighbors of
\* the new block are searched (line 744); an index i outside the lists (nbstart
\* taken from an entry of nslist that was never written) reads loclist[i] and
\* offset[i] outside the arrays: the process is stopped, or the values read
\* lead the reads of the block astray
LoadBlock ==
    /\ rpc = "load" /\ nbstart + Len(pblocks) <= nbend
    /\ LET i == nbstart + Len(pblocks)
       IN  IF i \notin DOMAIN loclist
           THEN /\ rpc' \in {"crashed", "fatal"}
                /\ UNCHANGED <<pblocks, neighbor>>
           ELSE LET parts == DOMAIN PayloadParts(mhd)
                    at == PayloadAt(offset[PayloadIndex(i, nbstart)], nbtotal)
                    n1 == Cardinality({k \in {1, 2} : ShortPayload(resfile.cut, at, k)})
                    n2 == Cardinality({k \in parts \ {1, 2} :
                                          ShortPayload(resfile.cut, at, k)})
                IN  IF Broken(n1) \/ Broken(n2)
                    THEN rpc' = "fatal" /\ UNCHANGED <<pblocks, neighbor>>
                    ELSE /\ rpc' = rpc
                         /\ pblocks' = Append(pblocks,
                               [gid |-> i, lid |-> i - nbstart, loc |-> loclist[i],
                                offset |-> offset[PayloadIndex(i, nbstart)],
                                cost |-> costlist[i]])
                         /\ \E g \in GarbageVals :
                               neighbor' = (i :> SearchAndSetNeighbors(tree, loclist[i],
                                                     ranklist, nslist, g).neighbor)
                                           @@ neighbor
    /\ UNCHANGED <<wmesh, resfile, offset, nread, nerr, my_rank, nbstart, nbend>>
    /\ UNCHANGED <<lbVars, dim, nrbx1, nrbx2, nrbx3, root_level, current_level, mesh_bcs,
                   mhd, tree, multilevel, face_only, nregions, loclist, nbuilt, mpc>>
    /\ UNCHANGED notRS
    /\ UNCHANGED tfVars

\* line 746: the local list is complete
FinishRestart ==
    /\ rpc = "load" /\ nbstart + Len(pblocks) > nbend
    /\ rpc' = "restarted"
    /\ UNCHANGED <<wmesh, resfile, offset, nread, nerr, my_rank, nbstart, nbend, pblocks>>
    /\ UNCHANGED <<lbVars, msVars, notRS>>
    /\ UNCHANGED tfVars

NextRS ==
    \/ WriteRestart \/ ReadHeader \/ ReadRecord \/ RebuildTree \/ BalanceRestart
    \/ LoadBlock \/ FinishRestart

StartRS == InitRS /\ IdleTS /\ IdleTK /\ IdleCK /\ IdleMR
    /\ IdleRC /\ IdleIN /\ IdleRG

SpecRS == StartRS /\ [][NextRS]_vars

\* the record the file holds for a location
WrittenFor(loc) ==
    {resfile.idlist[i] : i \in {k \in DOMAIN resfile.idlist : resfile.idlist[k].loc = loc}}

--------------------------------------------------------------------------
(* Input checks of Mesh::Mesh, mesh.cpp 73-238 (fresh) and 577-645 (restart) *)

CflInputs == {5, 6, 8, 10, 11}
ThreadInputs == {0, 1}
MeshCells == {0, 1, 3, 4, 8}
BlockCells == {0, 3, 4, 8}
ExtentInputs == {<<0, 1>>, <<1, 1>>}
\* cell size ratios in hundredths
RatioInputs == {100, 120}
\* mesh sizes of the meshes that write restart files
WrittenCells == {<<4, 1, 1>>, <<8, 1, 1>>, <<8, 4, 1>>, <<8, 8, 4>>}

msRest == <<root_level, current_level, mesh_bcs, mhd, tree, multilevel, face_only,
            nregions, loclist, neighbor, nbuilt, mpc>>

InitCK ==
    /\ is_restart \in BOOLEAN
    /\ cfl10 = 0 /\ num_threads = 0 /\ mesh_size = RegionSize0
    /\ block_size = RegionSize0 /\ cerr = "none" /\ cpc = "time"
    /\ IdleMS

Throw(e) == cerr' = e /\ cpc' = "fatal"

\* lines 75-96 and 579-592
ReadTimeInput ==
    /\ cpc = "time"
    /\ \E c \in CflInputs, nt \in ThreadInputs :
          /\ cfl10' = c
          /\ num_threads' = nt
          /\ IF nt < 1 THEN Throw("num_threads")
             ELSE cerr' = cerr /\ cpc' = IF is_restart THEN "header" ELSE "nx"
    /\ UNCHANGED <<is_restart, mesh_size, block_size, msVars, notCK>>

\* lines 98-127: which of the checks on the mesh cell counts throws
MeshCellsError(n1, n2, n3) ==
    IF n1 < 4 THEN "nx1"
    ELSE IF n2 < 1 THEN "nx2"
    ELSE IF n3 < 1 THEN "nx3"
    ELSE IF n2 = 1 /\ n3 > 1 THEN "x1x3plane"
    ELSE "none"

\* lines 98-127
ReadMeshCells ==
    /\ cpc = "nx"
    /\ \E n1 \in MeshCells, n2 \in MeshCells, n3 \in MeshCells :
          LET e == MeshCellsError(n1, n2, n3)
          IN  /\ mesh_size' = [mesh_size EXCEPT
                     !.nx1 = n1,
                     !.nx2 = IF e = "nx1" THEN @ ELSE n2,
                     !.nx3 = IF e \in {"nx1", "nx2"} THEN @ ELSE n3]
              /\ IF e # "none" THEN Throw(e)
                 ELSE cerr' = cerr /\ cpc' = "cfl"
    /\ UNCHANGED <<is_restart, cfl10, num_threads, block_size, msVars, notCK>>

\* lines 596-611: mesh_size comes from the header of the file
ReadHeaderSize ==
    /\ cpc = "header"
    /\ \E w \in WrittenCells :
          mesh_size' = [mesh_size EXCEPT !.nx1 = w[1], !.nx2 = w[2], !.nx3 = w[3],
                                         !.x1max = 1, !.x2max = 1, !.x3max = 1,
                                         !.x1rat = 100, !.x2rat = 100, !.x3rat = 100]
    /\ cpc' = "cfl"
    /\ UNCHANGED <<is_restart, cfl10, num_threads, block_size, cerr, msVars, notCK>>

CflErrorInclusive(c10, n2) ==
    IF c10 >= 10 /\ n2 = 1 THEN "cfl1d"
    ELSE IF c10 >= 5 /\ n2 > 1 THEN "cfl2d"
    ELSE "none"

\* lines 129-139 and 619-629
CflError(c10, n2) ==
    IF c10 > 10 /\ n2 = 1 THEN "cfl1d"
    ELSE IF c10 > 5 /\ n2 > 1 THEN "cfl2d"
    ELSE "none"

\* lines 141-143 and 615-617
DimOf(n2, n3) == IF n3 > 1 THEN 3 ELSE IF n2 > 1 THEN 2 ELSE 1

\* lines 129-143 (check, then dim) and 615-629 (dim, then check)
CheckCfl ==
    /\ cpc = "cfl"
    /\ LET e == CflError(cfl10, mesh_size.nx2)
       IN  /\ dim' = IF e # "none" /\ ~is_restart THEN dim
                     ELSE DimOf(mesh_size.nx2, mesh_size.nx3)
           /\ IF e # "none" THEN Throw(e)
              ELSE cerr' = cerr /\ cpc' = IF is_restart THEN "block" ELSE "extent"
    /\ UNCHANGED <<is_restart, cfl10, num_threads, mesh_size, block_size>>
    /\ UNCHANGED <<nrbx1, nrbx2, nrbx3, msRest, notCK>>

\* lines 147-170
ReadMeshExtent ==
    /\ cpc = "extent"
    /\ \E x1 \in ExtentInputs, x2 \in ExtentInputs, x3 \in ExtentInputs :
          /\ mesh_size' = [mesh_size EXCEPT !.x1min = x1[1], !.x1max = x1[2],
                                            !.x2min = x2[1], !.x2max = x2[2],
                                            !.x3min = x3[1], !.x3max = x3[2]]
          /\ IF x1[2] <= x1[1] THEN Throw("x1max")
             ELSE IF x2[2] <= x2[1] THEN Throw("x2max")
             ELSE IF x3[2] <= x3[1] THEN Throw("x3max")
             ELSE cerr' = cerr /\ cpc' = "rat"
    /\ UNCHANGED <<is_restart, cfl10, num_threads, block_size, msVars, notCK>>

\* lines 174-195
ReadMeshRatio ==
    /\ cpc = "rat"
    /\ \E r1 \in RatioInputs, r2 \in RatioInputs, r3 \in RatioInputs :
          /\ mesh_size' = [mesh_size EXCEPT !.x1rat = r1, !.x2rat = r2, !.x3rat = r3]
          /\ block_size' = [block_size EXCEPT !.x1rat = r1, !.x2rat = r2, !.x3rat = r3]
          /\ IF Abs(r1 - 100) > 10 THEN Throw("x1rat")
             ELSE IF Abs(r2 - 100) > 10 THEN Throw("x2rat")
             ELSE IF Abs(r3 - 100) > 10 THEN Throw("x3rat")
             ELSE cerr' = cerr /\ cpc' = "block"
    /\ UNCHANGED <<is_restart, cfl10, num_threads, msVars, notCK>>

\* line 224-226: the three remainders, left to right; a zero divisor that is
\* reached is a division by zero
DivisibleCheck(n1, n2, n3, b1, b2, b3) ==
    IF b1 = 0 THEN "undefined"
    ELSE IF n1 % b1 # 0 THEN "throw"
    ELSE IF b2 = 0 THEN "undefined"
    ELSE IF n2 % b2 # 0 THEN "throw"
    ELSE IF b3 = 0 THEN "undefined"
    ELSE IF n3 % b3 # 0 THEN "throw"
    ELSE "pass"

\* what a division by zero can do: the process is stopped by the trap, or the
\* remainder has some value
DivisionByZero == {"trap", "throw", "pass"}

\* lines 230-231
BlockTooSmall(b1, b2, b3, d) == b1 < 4 \/ (b2 < 4 /\ d >= 2) \/ (b3 < 4 /\ d = 3)

\* lines 208-238
ReadBlockCells ==
    /\ cpc = "block" /\ ~is_restart
    /\ \E i1 \in BlockCells, i2 \in BlockCells, i3 \in BlockCells :
          LET b1 == i1
              b2 == IF dim >= 2 THEN i2 ELSE mesh_size.nx2
              b3 == IF dim = 3 THEN i3 ELSE mesh_size.nx3
              c  == DivisibleCheck(mesh_size.nx1, mesh_size.nx2, mesh_size.nx3, b1, b2, b3)
          IN  /\ block_size' = [block_size EXCEPT !.nx1 = b1, !.nx2 = b2, !.nx3 = b3]
              /\ \E o \in (IF c = "undefined" THEN DivisionByZero ELSE {c}) :
                    IF o = "trap"
                    THEN cerr' = cerr /\ cpc' = "trap" /\ UNCHANGED <<nrbx1, nrbx2, nrbx3>>
                    ELSE IF o = "throw"
                    THEN Throw("divisible") /\ UNCHANGED <<nrbx1, nrbx2, nrbx3>>
                    ELSE IF BlockTooSmall(b1, b2, b3, dim)
                    THEN Throw("block_size") /\ UNCHANGED <<nrbx1, nrbx2, nrbx3>>
                    ELSE /\ nrbx1' = mesh_size.nx1 \div b1
                         /\ nrbx2' = mesh_size.nx2 \div b2
                         /\ nrbx3' = mesh_size.nx3 \div b3
                         /\ cerr' = cerr /\ cpc' = "accepted"
    /\ UNCHANGED <<is_restart, cfl10, num_threads, mesh_size, dim, msRest, notCK>>

\* lines 638-645
ReadBlockCellsRestart ==
    /\ cpc = "block" /\ is_restart
    /\ \E b1 \in {mesh_size.nx1, 4}, b2 \in {mesh_size.nx2, 4}, b3 \in {mesh_size.nx3, 4} :
          /\ block_size' = [block_size EXCEPT !.nx1 = b1, !.nx2 = b2, !.nx3 = b3]
          /\ nrbx1' = mesh_size.nx1 \div b1
          /\ nrbx2' = mesh_size.nx2 \div b2
          /\ nrbx3' = mesh_size.nx3 \div b3
    /\ cpc' = "accepted"
    /\ UNCHANGED <<is_restart, cfl10, num_threads, mesh_size, cerr, dim, msRest, notCK>>

NextCK ==
    \/ ReadTimeInput \/ ReadMeshCells \/ ReadHeaderSize \/ CheckCfl \/ ReadMeshExtent
    \/ ReadMeshRatio \/ ReadBlockCells \/ ReadBlockCellsRestart

StartCK == InitCK /\ IdleLB /\ IdleTS /\ IdleTK /\ IdleRS /\ IdleTF /\ IdleMR
    /\ IdleRC /\ IdleIN /\ IdleRG

SpecCK == StartCK /\ [][NextCK]_vars

CflChecked == cpc \in {"extent", "rat", "block", "accepted", "trap"}
CflErrors == {"cfl1d", "cfl2d"}

\* C11: in both constructors the CFL error is thrown exactly when cfl_number >
\* 1.0 with nx2 = 1 or cfl_number > 0.5 with nx2 > 1: it is thrown only then,
\* and no construction gets past the check then; CFL 0.8 in 1D passes the
\* check and CFL 1.1 in 1D does not.
C11_CflChecked ==
    LET large == \/ cfl10 > 10 /\ mesh_size.nx2 = 1
                 \/ cfl10 > 5 /\ mesh_size.nx2 > 1
    IN  /\ cerr \in CflErrors => large
        /\ CflChecked => ~large
        /\ (cfl10 = 8 /\ mesh_size.nx2 = 1) => cerr \notin CflErrors
        /\ (cfl10 = 11 /\ mesh_size.nx2 = 1) => ~CflChecked

C11_Witness ==
    /\ is_restart /\ cpc = "fatal" /\ cerr = "cfl1d" /\ cfl10 = 11 /\ mesh_size.nx2 = 1

SizeInvariants ==
    /\ mesh_size.nx1 >= 4
    /\ mesh_size.nx2 > 1 => mesh_size.nx2 >= 4
    /\ mesh_size.nx3 > 1 => mesh_size.nx3 >= 4
    /\ ~(mesh_size.nx3 > 1 /\ mesh_size.nx2 = 1)
    /\ block_size.nx1 >= 4
    /\ mesh_size.nx2 > 1 => block_size.nx2 >= 4
    /\ mesh_size.nx3 > 1 => block_size.nx3 >= 4
    /\ mesh_size.nx1 = nrbx1 * block_size.nx1
    /\ mesh_size.nx2 = nrbx2 * block_size.nx2
    /\ mesh_size.nx3 = nrbx3 * block_size.nx3

\* C12 (as claimed): the fresh constructor either throws or ends with a mesh
\* that satisfies the size invariants (mesh nx1 >= 4, nx_d >= 4 on active axes,
\* no nx3 > 1 with nx2 = 1, block nx_d >= 4 on active axes, mesh cells a
\* multiple of block cells): it never ends in another way on cell counts that
\* violate one of them.
C12_SizesOrThrow ==
    (~is_restart /\ cpc \in {"accepted", "trap"}) => SizeInvariants

\* first half of C12 alone: every mesh the fresh constructor accepts satisfies
\* the size invariants
C12_AcceptedSizes ==
    (~is_restart /\ cpc = "accepted") => SizeInvariants

--------------------------------------------------------------------------
(* Claims on the check of the number of blocks (SpecMS, SpecRS) *)

PastBlockCheck == mpc \in {"fatal", "blocks", "built", "tested"}
PastBlockCheckRestart == rpc \in {"fatal", "load", "restarted", "tested", "warned"}
Proceeded == lbpc = "balanced" /\ (my_rank = 0 => reported)

\* C13, fresh constructor: with nbtotal < nranks the construction fails when
\* test_flag = 0, and with test_flag > 0 it goes on through LoadBalancing and
\* the report of the mesh structure.
C13_TooFewBlocksFresh ==
    (PastBlockCheck /\ nbtotal < nranks) =>
        IF test_flag = 0 THEN mpc = "fatal" ELSE mpc = "tested" /\ Proceeded

\* C13 (as claimed), restart constructor: with nbtotal < nranks the
\* construction fails when test_flag = 0, and with test_flag > 0 it goes on
\* through LoadBalancing and the report of the mesh structure.
C13_TooFewBlocksRestart ==
    (PastBlockCheckRestart /\ nbtotal < nranks) =>
        IF test_flag = 0 THEN rpc = "fatal" ELSE rpc = "tested" /\ Proceeded

--------------------------------------------------------------------------
(* Claims on a restart file that is broken (SpecRS) *)

HeaderPassed == rpc \in {"list", "balance", "load", "restarted", "tested", "warned"}
IdListPassed == rpc \in {"balance", "load", "restarted", "tested", "warned"}

\* C14: no restart construction gets past a short read or a tree of another
\* size: it is beyond the header only if every header field was read in full,
\* beyond the id list only if every record was read in full and the rebuilt
\* tree has nbtotal leaves, and every block it has built had its whole payload
\* read; so a constructor that returns has met none of them.
C14_CorruptionFatal ==
    /\ HeaderPassed => \A k \in DOMAIN HeaderFields : ~ShortHeader(resfile.cut, k)
    /\ IdListPassed =>
          /\ \A i \in 0..(nbtotal-1), k \in DOMAIN RecordFields :
                ~ShortRecord(resfile.cut, i, k)
          /\ ~resfile.damaged
          /\ CountMeshBlock(tree) = nbtotal
    /\ rpc \in {"load", "restarted"} =>
          \A b \in 1..Len(pblocks), k \in DOMAIN PayloadParts(mhd) :
              ~ShortPayload(resfile.cut, pblocks[b].gid, k)
    /\ rpc = "restarted" => Len(pblocks) = nbend - nbstart + 1

C14_Witness ==
    /\ rpc = "fatal" /\ resfile.cut.at = "payload" /\ Len(pblocks) >= 1
    /\ resfile.cut.f = Len(PayloadParts(mhd)) /\ mhd

--------------------------------------------------------------------------
(* Mesh::MeshRefinement, mesh.cpp 1650-1853 *)

RefineGrids == {<<1, 2, 1, 1>>, <<1, 3, 1, 1>>, <<2, 2, 1, 1>>}
FlagVals == {-1, 0, 1}

\* lines 1717-1719
MinBl(d) == IF d = 3 THEN 8 ELSE IF d = 2 THEN 4 ELSE 2

\* the blocks of this rank, pblock and its successors
LocalGids == {g \in DOMAIN ranklist : ranklist[g] = my_rank}

\* lines 1727-1740 on every rank and the allgatherv of 1742-1761: the locations
\* of the blocks with flag v, in rank order and so in gid order
RECURSIVE Gathered(_, _, _, _)
Gathered(llist, flags, v, g) ==
    IF g \notin DOMAIN llist THEN <<>>
    ELSE (IF flags[g] = v THEN <<llist[g]>> ELSE <<>>) \o Gathered(llist, flags, v, g + 1)

\* LogicalLocation::Greater: descending level, then descending position
Greater(a, b) ==
    \/ a.level > b.level
    \/ a.level = b.level /\ <<a.lx3, a.lx2>> = <<b.lx3, b.lx2>> /\ a.lx1 > b.lx1
    \/ a.level = b.level /\ a.lx3 = b.lx3 /\ a.lx2 > b.lx2
    \/ a.level = b.level /\ a.lx3 > b.lx3

RECURSIVE InsertSorted(_, _)
InsertSorted(sq, x) ==
    IF sq = <<>> THEN <<x>>
    ELSE IF Greater(x, Head(sq)) THEN <<x>> \o sq
    ELSE <<Head(sq)>> \o InsertSorted(Tail(sq), x)

RECURSIVE Sorted(_)
Sorted(sq) == IF sq = <<>> THEN <<>> ELSE InsertSorted(Sorted(Tail(sq)), Head(sq))

\* lines 1802-1803: std::sort(clderef, &(clderef[ctnd-1]), ...) sorts the
\* entries before the last one
SortAccepted(cl) ==
    IF Len(cl) > 1
    THEN Sorted(SubSeq(cl, 1, Len(cl) - 1)) \o <<cl[Len(cl)]>>
    ELSE cl

InitMR ==
    /\ \E g \in RefineGrids :
          /\ dim = g[1] /\ nrbx1 = g[2] /\ nrbx2 = g[3] /\ nrbx3 = g[4]
          /\ root_level = RootLevelOf(Max(g[2], Max(g[3], g[4])))
          /\ tree \in {u \in TreesWithin(1, g[1], g[2], g[3], g[4],
                                         RootLevelOf(Max(g[2], Max(g[3], g[4])))) :
                         CountMeshBlock(u) <= MaxFlagBlocks}
    /\ loclist = GetMeshBlockList(tree, dim)
    /\ nbtotal = CountMeshBlock(tree)
    /\ current_level = root_level + MaxRefLev
    /\ mesh_bcs = BCsOf("reflecting", "reflecting", "reflecting")
    /\ mhd = FALSE /\ multilevel = TRUE /\ face_only = FALSE /\ nregions = 0
    /\ neighbor = <<>> /\ nbuilt = nbtotal /\ mpc = "built"
    /\ nranks \in 1..Min(MaxMeshRanks, nbtotal)
    /\ costlist = [i \in 0..(nbtotal-1) |-> 1]
    /\ LET r == LoadBalancing(costlist, nbtotal, nranks,
                              [i \in 0..(nbtotal-1) |-> 0],
                              [i \in 0..(nranks-1) |-> 0], [i \in 0..(nranks-1) |-> 0])
       IN  ranklist = r.rlist /\ nslist = r.slist /\ nblist = r.nlist
    /\ lbpc = "balanced"
    /\ refine_flag \in [0..(nbtotal-1) -> FlagVals]
    /\ tnref = 0 /\ tnderef = 0 /\ lref = <<>> /\ lderef = <<>> /\ allocated = FALSE
    /\ clderef = <<>> /\ fn = 0 /\ oob = 0 /\ recomputed = {} /\ initialized = FALSE
    /\ pending = {} /\ mrpc = "entry"

\* lines 1650-1712: the cost list allgatherv is started as areq[3]; the counts
\* are gathered with areq[0] and areq[1], which are waited on
EnterRefinement ==
    /\ mrpc = "entry"
    /\ pending' = {3}
    /\ tnref' = Cardinality({g \in DOMAIN refine_flag : refine_flag[g] = 1})
    /\ tnderef' = Cardinality({g \in DOMAIN refine_flag : refine_flag[g] = -1})
    /\ mrpc' = IF tnref' = 0 /\ tnderef' = 0 THEN "returned" ELSE "collect"
    /\ UNCHANGED <<refine_flag, lref, lderef, allocated, clderef, fn, oob, recomputed,
                   initialized>>
    /\ UNCHANGED notMR

\* lines 1714-1771: the arrays, and the gathered locations
CollectLocations ==
    /\ mrpc = "collect"
    /\ lref' = Gathered(loclist, refine_flag, 1, 0)
    /\ allocated' = (tnderef > MinBl(dim))
    /\ lderef' = IF tnderef > MinBl(dim) THEN Gathered(loclist, refine_flag, -1, 0)
                 ELSE <<>>
    /\ clderef' = <<>>
    /\ fn' = 0
    /\ mrpc' = "filter"
    /\ UNCHANGED <<refine_flag, tnref, tnderef, oob, recomputed, initialized, pending>>
    /\ UNCHANGED notMR

\* lines 1779-1781: the sibling that the loops k, j, i reach as number q
SiblingOf(loc, q, d) ==
    Loc(loc.level, loc.lx1 + (q % 2),
        loc.lx2 + (IF d >= 2 THEN (q \div 2) % 2 ELSE 0),
        loc.lx3 + (IF d = 3 THEN q \div 4 ELSE 0))

\* lines 1777 and 1787: the entry compared with sibling q of lderef[n] is
\* lderef[n + 1 + q]
FirstRead(n, q) == n + 1 + q

\* lines 1791-1794
ParentOf(loc) == Loc(loc.level - 1, loc.lx1 \div 2, loc.lx2 \div 2, loc.lx3 \div 2)

\* a read through the pointer lderef that was never set: the process is
\* stopped, or the values read are arbitrary and the block is passed over or
\* taken as the first of a complete group
WildRead == {"trap", "skip", "accept"}

\* lines 1773-1800, one iteration of the loop over n
FilterStep ==
    /\ mrpc = "filter" /\ fn < tnderef
    /\ IF ~allocated
       THEN \E o \in WildRead :
               /\ mrpc' = IF o = "trap" THEN "crashed" ELSE "filter"
               /\ fn' = IF o = "trap" THEN fn ELSE fn + 1
               /\ oob' = oob + 1
               /\ clderef' = IF o = "accept" THEN Append(clderef, ParentOf(Loc(0, 0, 0, 0)))
                             ELSE clderef
       ELSE LET cur == lderef[fn + 1]
                even == cur.lx1 % 2 = 0 /\ cur.lx2 % 2 = 0 /\ cur.lx3 % 2 = 0
                qs == 0..(MinBl(dim) - 1)
                inside == {q \in qs : FirstRead(fn, q) < tnderef}
                rr == Cardinality({q \in inside :
                          lderef[FirstRead(fn, q) + 1] = SiblingOf(cur, q, dim)})
                nout == Cardinality(qs \ inside)
            IN  /\ mrpc' = mrpc
                /\ fn' = fn + 1
                /\ IF even
                   THEN /\ oob' = oob + nout
                        /\ \E g \in 0..nout :
                              clderef' = IF rr + g = MinBl(dim)
                                         THEN Append(clderef, ParentOf(cur))
                                         ELSE clderef
                   ELSE UNCHANGED <<oob, clderef>>
    /\ UNCHANGED <<refine_flag, tnref, tnderef, lref, lderef, allocated, recomputed,
                   initialized, pending>>
    /\ UNCHANGED notMR

\* lines 1801-1824: the accepted parents are sorted; the tree manipulation of
\* steps 1 to 3 is empty
FinishFilter ==
    /\ mrpc = "filter" /\ fn = tnderef
    /\ clderef' = SortAccepted(clderef)
    /\ mrpc' = "tree"
    /\ UNCHANGED <<refine_flag, tnref, tnderef, lref, lderef, allocated, fn, oob,
                   recomputed, initialized, pending>>
    /\ UNCHANGED notMR

\* lines 1832-1838: once per local block, SearchAndSetNeighbors is called on
\* pblock, the first block of the list; then Initialize(2, pin)
Reinitialize ==
    /\ mrpc = "tree"
    /\ recomputed' = IF LocalGids = {} THEN {} ELSE {SetMin(LocalGids)}
    /\ initialized' = TRUE
    /\ mrpc' = "free"
    /\ UNCHANGED <<refine_flag, tnref, tnderef, lref, lderef, allocated, clderef, fn, oob,
                   pending>>
    /\ UNCHANGED notMR

\* lines 1841-1853
ReturnRefinement ==
    /\ mrpc = "free"
    /\ mrpc' = "returned"
    /\ UNCHANGED <<refine_flag, tnref, tnderef, lref, lderef, allocated, clderef, fn, oob,
                   recomputed, initialized, pending>>
    /\ UNCHANGED notMR

NextMR ==
    \/ EnterRefinement \/ CollectLocations \/ FilterStep \/ FinishFilter
    \/ Reinitialize \/ ReturnRefinement

StartMR == InitMR /\ IdleTS /\ IdleTK /\ IdleRS /\ IdleCK /\ IdleTF
    /\ IdleRC /\ IdleIN /\ IdleRG

SpecMR == StartMR /\ [][NextMR]_vars

Flagged(v) == {loclist[g] : g \in {h \in DOMAIN refine_flag : refine_flag[h] = v}}
Accepted == {clderef[c] : c \in 1..Len(clderef)}
RefinementEnded == mrpc \in {"returned", "crashed"}

\* C15 (as claimed): a parent is in clderef only if all 2^dim of its children
\* are among the blocks flagged -1.
C15_FullSiblingSets ==
    \A p \in Accepted : Children(p, dim) \subseteq Flagged(-1)

\* C15 restricted to the calls in which every read of lderef stays inside the
\* gathered list
C15_FullSetsInBounds ==
    oob = 0 => \A p \in Accepted : Children(p, dim) \subseteq Flagged(-1)

\* exactly one block of a group of 2^dim sibling leaves is flagged -1, no other
\* block is flagged
OneSiblingFlagged ==
    /\ Flagged(1) = {}
    /\ \E g \in DOMAIN refine_flag :
          /\ refine_flag[g] = -1
          /\ \A h \in DOMAIN refine_flag \ {g} : refine_flag[h] = 0
          /\ Children(ParentOf(loclist[g]), dim) \subseteq tree

\* C16 (as claimed): with one of 2^dim siblings flagged -1 and no block
\* flagged 1, MeshRefinement returns without error and the tree, loclist and
\* nbtotal are those of the unchanged tree, in which the siblings are leaves.
C16_RejectionLeavesMesh ==
    (OneSiblingFlagged /\ RefinementEnded) =>
        /\ mrpc = "returned"
        /\ loclist = GetMeshBlockList(tree, dim)
        /\ nbtotal = CountMeshBlock(tree)
        /\ Accepted = {}

\* C17 (as claimed): with no block flagged 1 and at most minbl blocks flagged
\* -1, MeshRefinement returns without calling SearchAndSetNeighbors or
\* Initialize.
C17_NoOpBelowMinbl ==
    (mrpc \notin {"entry", "idle"} /\ tnref = 0 /\ tnderef <= MinBl(dim)) =>
        /\ recomputed = {} /\ ~initialized
        /\ RefinementEnded => mrpc = "returned"

\* C21 (as claimed): when Initialize(2) runs at the end of a refinement cycle,
\* SearchAndSetNeighbors has recomputed the neighbor table of every local block.
C21_AllTablesRecomputed ==
    initialized => recomputed = LocalGids

\* C22 (as claimed): when MeshRefinement has returned, on the early return and
\* on the full path, no request started in it is still pending; the cost list
\* allgatherv areq[3] has been waited on.
C22_NoRequestPending ==
    mrpc = "returned" => pending = {}

\* the parents all of whose 2^dim children are leaves flagged -1
FullyFlaggedParents ==
    {ParentOf(l) : l \in {m \in Flagged(-1) : m.level > root_level /\
                              Children(ParentOf(m), dim) \subseteq Flagged(-1)}}

\* C28 (as claimed): when more than minbl blocks are flagged -1, the filter
\* has put every parent whose 2^dim children are all flagged -1 into clderef
\* exactly once.
C28_FullSetAcceptedOnce ==
    (mrpc \in {"tree", "free", "returned"} /\ tnderef > MinBl(dim)) =>
        \A p \in FullyFlaggedParents :
            Cardinality({c \in 1..Len(clderef) : clderef[c] = p}) = 1

\* C29 (as claimed): the filter reads lderef only where it is allocated and
\* below tnderef, and clderef never holds more than tnderef / minbl parents.
C29_FilterReadsInBounds ==
    /\ oob = 0
    /\ Len(clderef) <= tnderef \div MinBl(dim)

--------------------------------------------------------------------------
(* Dynamic storage: Mesh::Mesh 64-561 and 567-752, Mesh::~Mesh 757-770,        *)
(* MeshBlock::MeshBlock 838-951 and 959-1058, MeshBlock::~MeshBlock 1063-1073  *)

Array(a) == [r |-> a, b |-> -1]
Member(m, i) == [r |-> m, b |-> i]

\* lines 417, 437-440
FreshArrays == {Array("ranklist"), Array("nslist"), Array("nblist"), Array("costlist")}
\* lines 631-636
RestartArrays ==
    {Array("loclist"), Array("offset"), Array("costlist"), Array("ranklist"),
     Array("nslist"), Array("nblist")}

\* lines 942-949 and 1025-1032: what the constructor of block i allocates
BlockMembers(i, ml) ==
    {Member("pcoord", i), Member("phydro", i), Member("pfield", i), Member("pbval", i)}
    \cup (IF ml THEN {Member("pcoarsec", i), Member("pmr", i)} ELSE {})

\* lines 1063-1073, with the delete of the block itself
DeletedByBlock(i) ==
    {Member("MeshBlock", i), Member("pcoord", i), Member("phydro", i), Member("pfield", i),
     Member("pbval", i)}

\* lines 759-769
DeletedByMesh(n) ==
    UNION {DeletedByBlock(i) : i \in 0..(n-1)}
    \cup {Array("ptlist"), Array("nslist"), Array("nblist"), Array("ranklist"),
          Array("costlist"), Array("loclist")}

InitRC ==
    /\ kind \in {"fresh", "restart"}
    /\ live = {} /\ nblk = 0 /\ rcpc = "start"
    /\ rblocks \in 1..MaxLocal
    /\ test_flag \in {0, 1} /\ reported = FALSE
    /\ multilevel \in BOOLEAN
    /\ dim = 1 /\ nrbx1 = 1 /\ nrbx2 = 1 /\ nrbx3 = 1 /\ root_level = 0
    /\ current_level = 0 /\ mesh_bcs = <<>> /\ mhd = FALSE /\ tree = {}
    /\ face_only = TRUE /\ nregions = 0 /\ loclist = <<>>
    /\ neighbor = <<>> /\ nbuilt = 0 /\ mpc = "idle"

\* lines 64-416 and 567-629: the checks that throw before anything is allocated
CheckInputs ==
    /\ rcpc = "start"
    /\ \E ok \in BOOLEAN : rcpc' = IF ok THEN "arrays" ELSE "threw"
    /\ UNCHANGED <<kind, live, rblocks, nblk, tfVars, notRC>>

\* lines 416-459
AllocateFresh ==
    /\ rcpc = "arrays" /\ kind = "fresh"
    /\ \E few \in BOOLEAN :
          IF few /\ test_flag = 0
          THEN live' = live \cup {Array("loclist")} /\ rcpc' = "threw"
          ELSE /\ live' = live \cup {Array("loclist")} \cup FreshArrays
               /\ rcpc' = IF test_flag > 0 THEN "test_returned" ELSE "blocks"
    /\ UNCHANGED <<kind, rblocks, nblk, tfVars, notRC>>

\* lines 631-636
AllocateRestart ==
    /\ rcpc = "arrays" /\ kind = "restart"
    /\ live' = live \cup RestartArrays
    /\ rcpc' = "idlist"
    /\ UNCHANGED <<kind, rblocks, nblk, tfVars, notRC>>

\* lines 648-727: the id list, the tree, the number of blocks, test mode
ReadIdList ==
    /\ rcpc = "idlist"
    /\ \E o \in {"broken", "few", "ok"} :
          IF o = "broken" \/ (o = "few" /\ test_flag = 0)
          THEN rcpc' = "threw" /\ live' = live
          ELSE IF o = "few"
          THEN rcpc' = "test_returned" /\ live' = live
          ELSE IF test_flag > 0
          THEN rcpc' = "test_returned" /\ live' = live \ {Array("offset")}
          ELSE rcpc' = "blocks" /\ live' = live
    /\ UNCHANGED <<kind, rblocks, nblk, tfVars, notRC>>

\* lines 544-553 with 838-951: new MeshBlock of the fresh constructor
NewBlockFresh ==
    /\ rcpc = "blocks" /\ kind = "fresh" /\ nblk < rblocks
    /\ live' = live \cup {Member("MeshBlock", nblk)} \cup BlockMembers(nblk, multilevel)
    /\ nblk' = nblk + 1
    /\ UNCHANGED <<kind, rblocks, rcpc, tfVars, notRC>>

\* lines 729-744 with 959-1058: new MeshBlock of the restart constructor; a
\* constructor that throws gives back the block itself and nothing else
NewBlockRestart ==
    /\ rcpc = "blocks" /\ kind = "restart" /\ nblk < rblocks
    /\ \E o \in {"short_head", "short_data", "ok"} :
          /\ live' = IF o = "short_head" THEN live
                     ELSE IF o = "short_data" THEN live \cup BlockMembers(nblk, multilevel)
                     ELSE live \cup {Member("MeshBlock", nblk)}
                               \cup BlockMembers(nblk, multilevel)
          /\ nblk' = IF o = "ok" THEN nblk + 1 ELSE nblk
          /\ rcpc' = IF o = "ok" THEN rcpc ELSE "threw"
    /\ UNCHANGED <<kind, rblocks, tfVars, notRC>>

\* lines 558 and 748-751
FinishConstruction ==
    /\ rcpc = "blocks" /\ nblk = rblocks
    /\ live' = (live \cup {Array("ptlist")}) \ {Array("offset")}
    /\ rcpc' = "constructed"
    /\ UNCHANGED <<kind, rblocks, nblk, tfVars, notRC>>

\* lines 757-770
DestroyMesh ==
    /\ rcpc = "constructed"
    /\ live' = live \ DeletedByMesh(nblk)
    /\ rcpc' = "destroyed"
    /\ UNCHANGED <<kind, rblocks, nblk, tfVars, notRC>>

\* lines 757-770 on a Mesh of test mode: pblock was never set, and the
\* destructor starts with pblock->prev
DestroyTestMesh ==
    /\ rcpc = "test_returned"
    /\ \E o \in {"trap", "pass"} :
          IF o = "trap" THEN rcpc' = "crashed" /\ live' = live
          ELSE rcpc' = "destroyed" /\ live' = live \ DeletedByMesh(0)
    /\ UNCHANGED <<kind, rblocks, nblk, tfVars, notRC>>

NextRC ==
    \/ CheckInputs \/ AllocateFresh \/ AllocateRestart \/ ReadIdList \/ NewBlockFresh
    \/ NewBlockRestart \/ FinishConstruction \/ DestroyMesh \/ DestroyTestMesh

StartRC == InitRC /\ IdleLB /\ IdleTS /\ IdleTK /\ IdleRS /\ IdleCK /\ IdleMR /\ IdleIN
    /\ IdleRG

SpecRC == StartRC /\ [][NextRC]_vars

\* C18 (as claimed): on every exit path nothing that was allocated is left:
\* after the destructor, after a constructor has thrown, and, for the array
\* offset of the restart constructor, after the return of test mode.
C18_AllReleased ==
    /\ rcpc \in {"destroyed", "threw"} => live = {}
    /\ rcpc = "test_returned" => Array("offset") \notin live

\* the storage of a mesh of a single level is released by the destructor
C18_UniformDestroyed ==
    (rcpc = "destroyed" /\ ~multilevel /\ test_flag = 0) => live = {}

--------------------------------------------------------------------------
(* Uniform meshes: Mesh::Mesh on an input without refinement blocks *)

UniformGrids == {<<1, 2, 1, 1>>, <<1, 3, 1, 1>>, <<2, 2, 2, 1>>, <<2, 3, 2, 1>>, <<3, 2, 2, 2>>}

InitUM ==
    /\ \E g \in UniformGrids :
          /\ dim = g[1] /\ nrbx1 = g[2] /\ nrbx2 = g[3] /\ nrbx3 = g[4]
          /\ root_level = RootLevelOf(Max(g[2], Max(g[3], g[4])))
          /\ current_level = RootLevelOf(Max(g[2], Max(g[3], g[4])))
          /\ tree = CreateRootGrid(g[2], g[3], g[4],
                                   RootLevelOf(Max(g[2], Max(g[3], g[4]))))
          /\ mesh_bcs \in MeshBCs(g[1])
    /\ mhd \in BOOLEAN
    /\ multilevel = FALSE /\ face_only = TRUE
    /\ nregions = 0 /\ loclist = <<>> /\ neighbor = <<>> /\ nbuilt = 0
    /\ mpc = "regions"
    /\ nranks \in 1..MaxMeshRanks
    /\ test_flag = 0
    /\ reported = FALSE
    /\ nbtotal = 0 /\ costlist = <<>> /\ ranklist = <<>> /\ nslist = <<>>
    /\ nblist = <<>> /\ lbpc = "new"

NextUM == Enumerate \/ BuildBlock \/ FinishBlocks

StartUM == InitUM /\ IdleTS /\ IdleTK /\ IdleRS /\ IdleCK /\ IdleMR /\ IdleRC /\ IdleIN
    /\ IdleRG

SpecUM == StartUM /\ [][NextUM]_vars

OfType(b, ty) == {i \in 1..Len(neighbor[b]) : neighbor[b][i].type = ty}

Periodic222 ==
    /\ dim = 3 /\ nrbx1 = 2 /\ nrbx2 = 2 /\ nrbx3 = 2
    /\ mesh_bcs = BCsOf("periodic", "periodic", "periodic")

\* C19: on a uniform mesh with face_only set, every neighbor recorded is a
\* face neighbor and a block has at most 2*dim neighbors; on the periodic root
\* grid of 2x2x2 blocks every block has exactly 6 face neighbors, and without
\* face_only also exactly 12 edge and 8 corner neighbors.
C19_UniformNeighbors ==
    (mpc = "built" /\ ~multilevel) =>
        \A b \in Gids :
            /\ face_only =>
                  /\ \A i \in 1..Len(neighbor[b]) : neighbor[b][i].type = "neighbor_face"
                  /\ Len(neighbor[b]) <= 2 * dim
            /\ Periodic222 =>
                  /\ Cardinality(OfType(b, "neighbor_face")) = 6
                  /\ ~face_only =>
                        /\ Cardinality(OfType(b, "neighbor_edge")) = 12
                        /\ Cardinality(OfType(b, "neighbor_corner")) = 8
                  /\ face_only => Len(neighbor[b]) = 6

C19_Witness ==
    /\ mpc = "built" /\ ~multilevel /\ Periodic222 /\ ~face_only /\ nbtotal = 8
    /\ \A b \in Gids : Len(neighbor[b]) = 26

--------------------------------------------------------------------------
(* Mesh::Initialize, mesh.cpp 1104-1178 *)

notIN == <<lbVars, tsVars, tkVars, msVars, rsVars, ckVars, tfVars, mrVars, rcVars,
         rgVars>>

InitBlocks == 0..(iblocks[1] - 1)
Magnetic == iblocks[2]

\* lines 1117-1118
PgenOps == <<"ProblemGenerator", "CheckBoundary">>

\* lines 1125-1126
PostOps == <<"Initialize", "StartReceivingForInit">>

\* lines 1135-1137
SendOps(mag) ==
    <<"SendHydroBoundaryBuffers">>
    \o (IF mag THEN <<"SendFieldBoundaryBuffers">> ELSE <<>>)

ReceiveOpsBCFirst(mag, ml) ==
    <<"ReceiveHydroBoundaryBuffersWithWait">>
    \o (IF mag THEN <<"ReceiveFieldBoundaryBuffersWithWait">> ELSE <<>>)
    \o <<"ClearBoundaryForInit", "ApplyPhysicalBoundaries">>
    \o (IF ml THEN <<"ProlongateBoundaries">> ELSE <<>>)
    \o <<"ConservedToPrimitive">>

\* lines 1146-1164
ReceiveOps(mag, ml) ==
    <<"ReceiveHydroBoundaryBuffersWithWait">>
    \o (IF mag THEN <<"ReceiveFieldBoundaryBuffersWithWait">> ELSE <<>>)
    \o <<"ClearBoundaryForInit">>
    \o (IF ml THEN <<"ProlongateBoundaries">> ELSE <<>>)
    \o <<"ConservedToPrimitive", "ApplyPhysicalBoundaries">>

\* line 1172
DtOps == <<"NewBlockTimeStep">>

RecomputesDtAlways(rf) == TRUE

\* line 1169: if(res_flag==0 || res_flag==2)
RecomputesDt(rf) == rf = 0 \/ rf = 2

PhasesReceiveFirst(rf) ==
    (IF rf = 0 THEN <<"pgen">> ELSE <<>>) \o <<"post", "recv", "send">>
    \o (IF RecomputesDt(rf) THEN <<"dt">> ELSE <<>>)

\* lines 1111-1177: the loops over the local list, in the order of the text
Phases(rf) ==
    (IF rf = 0 THEN <<"pgen">> ELSE <<>>) \o <<"post", "send", "recv">>
    \o (IF RecomputesDt(rf) THEN <<"dt">> ELSE <<>>)

\* the loop that follows loop ph, or the return of line 1177
NextPhase(ph, rf) ==
    LET sq == Phases(rf)
        i == CHOOSE k \in 1..Len(sq) : sq[k] = ph
    IN  IF i < Len(sq) THEN sq[i + 1] ELSE "returned"

\* a Mesh with its local list built (lines 462-555, 729-745) and a caller
\* about to call Initialize
InitIN ==
    /\ res_flag \in {0, 1, 2}
    /\ iblocks \in (1..MaxLocal) \X BOOLEAN
    /\ ipc = "ready" /\ ipmb = 0
    /\ oplog = [b \in InitBlocks |-> <<>>]
    /\ stepped = 0
    /\ multilevel \in BOOLEAN
    /\ dim = 1 /\ nrbx1 = 1 /\ nrbx2 = 1 /\ nrbx3 = 1 /\ root_level = 0
    /\ current_level = 0 /\ mesh_bcs = <<>> /\ mhd = FALSE /\ tree = {}
    /\ face_only = TRUE /\ nregions = 0 /\ loclist = <<>>
    /\ neighbor = <<>> /\ nbuilt = 0 /\ mpc = "idle"

\* lines 1104-1112 and 1123
CallInitialize ==
    /\ ipc = "ready"
    /\ ipc' = Phases(res_flag)[1]
    /\ ipmb' = 0
    /\ UNCHANGED <<res_flag, iblocks, oplog, stepped>>
    /\ UNCHANGED notIN

\* lines 1113-1120, one iteration
GenerateProblem ==
    /\ ipc = "pgen" /\ ipmb < iblocks[1]
    /\ oplog' = [oplog EXCEPT ![ipmb] = @ \o PgenOps]
    /\ ipmb' = ipmb + 1
    /\ UNCHANGED <<res_flag, iblocks, ipc, stepped>>
    /\ UNCHANGED notIN

\* lines 1124-1128, one iteration
PostReceives ==
    /\ ipc = "post" /\ ipmb < iblocks[1]
    /\ oplog' = [oplog EXCEPT ![ipmb] = @ \o PostOps]
    /\ ipmb' = ipmb + 1
    /\ UNCHANGED <<res_flag, iblocks, ipc, stepped>>
    /\ UNCHANGED notIN

\* lines 1131-1139, one iteration
SendBuffers ==
    /\ ipc = "send" /\ ipmb < iblocks[1]
    /\ oplog' = [oplog EXCEPT ![ipmb] = @ \o SendOps(Magnetic)]
    /\ ipmb' = ipmb + 1
    /\ UNCHANGED <<res_flag, iblocks, ipc, stepped>>
    /\ UNCHANGED notIN

\* lines 1142-1166, one iteration
ReceiveAndConvert ==
    /\ ipc = "recv" /\ ipmb < iblocks[1]
    /\ oplog' = [oplog EXCEPT ![ipmb] = @ \o ReceiveOps(Magnetic, multilevel)]
    /\ ipmb' = ipmb + 1
    /\ UNCHANGED <<res_flag, iblocks, ipc, stepped>>
    /\ UNCHANGED notIN

\* lines 1171-1174, one iteration
BlockTimeSteps ==
    /\ ipc = "dt" /\ ipmb < iblocks[1]
    /\ oplog' = [oplog EXCEPT ![ipmb] = @ \o DtOps]
    /\ ipmb' = ipmb + 1
    /\ UNCHANGED <<res_flag, iblocks, ipc, stepped>>
    /\ UNCHANGED notIN

\* pmb == NULL: the loop ends, the next one starts from pblock; after the
\* loop of line 1171, NewTimeStep is called (line 1175)
LoopEnd ==
    /\ ipc \in {"pgen", "post", "send", "recv", "dt"} /\ ipmb = iblocks[1]
    /\ ipc' = NextPhase(ipc, res_flag)
    /\ ipmb' = 0
    /\ stepped' = IF ipc = "dt" THEN stepped + 1 ELSE stepped
    /\ UNCHANGED <<res_flag, iblocks, oplog>>
    /\ UNCHANGED notIN

NextIN ==
    \/ CallInitialize \/ GenerateProblem \/ PostReceives \/ SendBuffers
    \/ ReceiveAndConvert \/ BlockTimeSteps \/ LoopEnd

StartIN == InitIN /\ IdleLB /\ IdleTS /\ IdleTK /\ IdleRS /\ IdleCK /\ IdleTF /\ IdleMR
    /\ IdleRC /\ IdleRG

SpecIN == StartIN /\ [][NextIN]_vars

Has(b, op) == \E i \in 1..Len(oplog[b]) : oplog[b][i] = op
Pos(b, op) == CHOOSE i \in 1..Len(oplog[b]) : oplog[b][i] = op
Before(b, op1, op2) == Has(b, op1) /\ Has(b, op2) /\ Pos(b, op1) < Pos(b, op2)

\* C23: in Initialize every local block has posted its receives before any
\* local block sends a buffer, and every local block has sent its hydro (and
\* field) buffers before any local block receives with wait.
C23_GlobalPhases ==
    \A b \in InitBlocks : \A c \in InitBlocks :
        /\ (Has(b, "SendHydroBoundaryBuffers") \/ Has(b, "SendFieldBoundaryBuffers"))
              => Has(c, "StartReceivingForInit")
        /\ (Has(b, "ReceiveHydroBoundaryBuffersWithWait")
             \/ Has(b, "ReceiveFieldBoundaryBuffersWithWait"))
              => /\ Has(c, "SendHydroBoundaryBuffers")
                 /\ Magnetic => Has(c, "SendFieldBoundaryBuffers")

C23_Witness ==
    /\ ipc = "recv" /\ ipmb = 1 /\ iblocks[1] >= 2 /\ Magnetic
    /\ Has(0, "ReceiveFieldBoundaryBuffersWithWait")
    /\ ~Has(1, "ReceiveHydroBoundaryBuffersWithWait")

\* C24 (as claimed): for each block, after its buffers have been received,
\* the physical boundary conditions are applied, then the boundaries are
\* prolongated (if multilevel), then conserved is converted to primitive.
C24_BCsThenProlongThenPrim ==
    \A b \in InitBlocks :
        Has(b, "ConservedToPrimitive") =>
            /\ Before(b, "ReceiveHydroBoundaryBuffersWithWait", "ApplyPhysicalBoundaries")
            /\ multilevel => Before(b, "ApplyPhysicalBoundaries", "ProlongateBoundaries")
            /\ Before(b, "ApplyPhysicalBoundaries", "ConservedToPrimitive")

\* C24 (amended): for each block, after its buffers have been received, the
\* boundaries are prolongated (if and only if multilevel), then conserved is
\* converted to primitive, then the physical boundary conditions are applied.
C24_ProlongThenPrimThenBCs ==
    \A b \in InitBlocks :
        Has(b, "ReceiveHydroBoundaryBuffersWithWait") =>
            /\ Before(b, "ReceiveHydroBoundaryBuffersWithWait", "ConservedToPrimitive")
            /\ Magnetic =>
                  Before(b, "ReceiveFieldBoundaryBuffersWithWait", "ConservedToPrimitive")
            /\ Has(b, "ProlongateBoundaries") <=> multilevel
            /\ multilevel =>
                  /\ Before(b, "ReceiveHydroBoundaryBuffersWithWait", "ProlongateBoundaries")
                  /\ Before(b, "ProlongateBoundaries", "ConservedToPrimitive")
            /\ Before(b, "ConservedToPrimitive", "ApplyPhysicalBoundaries")

C24_Witness ==
    /\ ipc = "returned" /\ multilevel /\ Magnetic /\ iblocks[1] >= 2
    /\ \A b \in InitBlocks : Before(b, "ProlongateBoundaries", "ApplyPhysicalBoundaries")

\* C25 (as claimed): for every res_flag, Initialize ends by NewBlockTimeStep on
\* every local block and then NewTimeStep; the problem generator and the
\* boundary check run only for res_flag = 0.
C25_DtAlwaysRecomputed ==
    /\ stepped > 0 => \A b \in InitBlocks : Has(b, "NewBlockTimeStep")
    /\ ipc = "returned" =>
          /\ stepped = 1
          /\ \A b \in InitBlocks : oplog[b][Len(oplog[b])] = "NewBlockTimeStep"
    /\ \A b \in InitBlocks :
          (Has(b, "ProblemGenerator") \/ Has(b, "CheckBoundary")) => res_flag = 0

\* C25 (amended): for res_flag 0 and 2, Initialize ends by NewBlockTimeStep on
\* every local block and then NewTimeStep; for res_flag 1 it calls neither;
\* the problem generator and the boundary check run on every block for
\* res_flag = 0 and on none otherwise.
C25_DtUnlessRestart ==
    /\ stepped > 0 => \A b \in InitBlocks : Has(b, "NewBlockTimeStep")
    /\ (ipc = "returned" /\ res_flag \in {0, 2}) =>
          /\ stepped = 1
          /\ \A b \in InitBlocks : oplog[b][Len(oplog[b])] = "NewBlockTimeStep"
    /\ res_flag = 1 =>
          /\ stepped = 0
          /\ \A b \in InitBlocks : ~Has(b, "NewBlockTimeStep")
    /\ \A b \in InitBlocks :
          /\ (Has(b, "ProblemGenerator") \/ Has(b, "CheckBoundary")) => res_flag = 0
          /\ (res_flag = 0 /\ Has(b, "StartReceivingForInit")) =>
                Before(b, "ProblemGenerator", "CheckBoundary")

C25_Witness ==
    /\ ipc = "returned" /\ res_flag = 1 /\ stepped = 0 /\ iblocks[1] >= 2
    /\ \A b \in InitBlocks : Has(b, "ApplyPhysicalBoundaries")

--------------------------------------------------------------------------
(* One refinement block of the input: Mesh::Mesh, mesh.cpp 270-396 *)

notRG == <<lbVars, tsVars, tkVars, msVars, rsVars, ckVars, tfVars, mrVars, rcVars, inVars>>

\* lines 141-268 and 272-321: the root grid is built and a refinement block
\* that passes the range checks has been read
InitRG ==
    /\ \E g \in RootGrids :
          /\ dim = g[1] /\ nrbx1 = g[2] /\ nrbx2 = g[3] /\ nrbx3 = g[4]
          /\ root_level = RootLevelOf(Max(g[2], Max(g[3], g[4])))
          /\ current_level = RootLevelOf(Max(g[2], Max(g[3], g[4])))
          /\ tree = CreateRootGrid(g[2], g[3], g[4],
                                   RootLevelOf(Max(g[2], Max(g[3], g[4]))))
          /\ \E ref_lev \in 1..MaxRefLev, e1 \in Extents(g[2]) :
             \E e2 \in (IF g[1] >= 2 THEN Extents(g[3]) ELSE {<<0, 0>>}),
                e3 \in (IF g[1] = 3 THEN Extents(g[4]) ELSE {<<0, 0>>}) :
                region = [ref_lev |-> ref_lev, x1 |-> e1, x2 |-> e2, x3 |-> e3]
    /\ mesh_bcs = BCsOf("reflecting", "reflecting", "reflecting")
    /\ mhd = FALSE /\ multilevel = FALSE /\ face_only = TRUE
    /\ nregions = 0 /\ loclist = <<>> /\ neighbor = <<>> /\ nbuilt = 0
    /\ mpc = "regions"
    /\ lrange = <<>> /\ passed = <<>> /\ rgpc = "read"

\* lines 293-297 and 322-361
FindRange ==
    /\ rgpc = "read"
    /\ current_level' = Max(current_level, region.ref_lev + root_level)
    /\ multilevel' = TRUE
    /\ lrange' = <<LogicalRange(TRUE, region.x1[1], region.x1[2], nrbx1, region.ref_lev),
                   LogicalRange(dim >= 2, region.x2[1], region.x2[2], nrbx2, region.ref_lev),
                   LogicalRange(dim = 3, region.x3[1], region.x3[2], nrbx3, region.ref_lev)>>
    /\ rgpc' = "range"
    /\ UNCHANGED <<region, passed>>
    /\ UNCHANGED <<dim, nrbx1, nrbx2, nrbx3, root_level, mesh_bcs, mhd, tree, face_only,
                   nregions, loclist, neighbor, nbuilt, mpc>>
    /\ UNCHANGED <<lbVars, tsVars, tkVars, rsVars, ckVars, tfVars, mrVars, rcVars, inVars>>

\* lines 362-394
AddLeaves ==
    /\ rgpc = "range"
    /\ passed' = RegionLocs(dim, region.ref_lev + root_level, lrange[1], lrange[2],
                            lrange[3])
    /\ tree' = AddAll(tree, passed', 1, dim)
    /\ nregions' = nregions + 1
    /\ rgpc' = "added"
    /\ UNCHANGED <<region, lrange>>
    /\ UNCHANGED <<dim, nrbx1, nrbx2, nrbx3, root_level, current_level, mesh_bcs, mhd,
                   multilevel, face_only, loclist, neighbor, nbuilt, mpc>>
    /\ UNCHANGED <<lbVars, tsVars, tkVars, rsVars, ckVars, tfVars, mrVars, rcVars, inVars>>

NextRG == FindRange \/ AddLeaves

StartRG == InitRG /\ IdleLB /\ IdleTS /\ IdleTK /\ IdleRS /\ IdleCK /\ IdleTF /\ IdleMR
    /\ IdleRC /\ IdleIN

SpecRG == StartRG /\ [][NextRG]_vars

ActiveAxes == 1..dim
RootBlocks(a) == IF a = 1 THEN nrbx1 ELSE IF a = 2 THEN nrbx2 ELSE nrbx3
Coord(l, a) == IF a = 1 THEN l.lx1 ELSE IF a = 2 THEN l.lx2 ELSE l.lx3
Passed == {passed[q] : q \in 1..Len(passed)}

\* C26 (as claimed): for every accepted refinement region the logical range
\* has an even lower and an odd upper bound on every active axis, and every
\* location handed to AddMeshBlock has even lx on every active axis and lies
\* inside the domain, 0 <= lx_d < nrbx_d * 2^ref_lev.
C26_AlignedInsideDomain ==
    /\ rgpc \in {"range", "added"} =>
          \A a \in ActiveAxes : lrange[a][1] % 2 = 0 /\ lrange[a][2] % 2 = 1
    /\ rgpc = "added" =>
          \A l \in Passed : \A a \in ActiveAxes :
              /\ Coord(l, a) % 2 = 0
              /\ 0 <= Coord(l, a) /\ Coord(l, a) < RootBlocks(a) * 2^(region.ref_lev)

\* what holds of every accepted region: the alignment; and the locations are
\* inside the domain when no lower bound of the region is the upper edge of
\* the mesh
C26_AlignedInsideUnlessAtEdge ==
    /\ rgpc \in {"range", "added"} =>
          \A a \in ActiveAxes : lrange[a][1] % 2 = 0 /\ lrange[a][2] % 2 = 1
    /\ rgpc = "added" =>
          \A l \in Passed : \A a \in ActiveAxes :
              /\ Coord(l, a) % 2 = 0
              /\ 0 <= Coord(l, a)
              /\ (region.x1[1] < WidthOf(nrbx1) /\ (dim >= 2 => region.x2[1] < WidthOf(nrbx2))
                  /\ (dim = 3 => region.x3[1] < WidthOf(nrbx3)))
                    => Coord(l, a) < RootBlocks(a) * 2^(region.ref_lev)

--------------------------------------------------------------------------
(* Coarser edge and corner neighbors: the senders of a buffer slot *)

DirOf(r) == <<r.ox1, r.ox2, r.ox3>>

AllDirs == {-1, 0, 1} \X {-1, 0, 1} \X {-1, 0, 1}

\* the records of block b that name a coarser block across an edge or a corner
CoarserRecs(b) ==
    {i \in 1..Len(neighbor[b]) :
        /\ neighbor[b][i].type \in {"neighbor_edge", "neighbor_corner"}
        /\ neighbor[b][i].level < loclist[b].level}

\* lines 1298-1300 with 1445, 1481, 1516 and 1542: the fine index that
\* FindBufferID is given for the slot of the coarser neighbor: myfx3 on an
\* x1x2 edge, myfx2 on an x1x3 edge, myfx1 on an x2x3 edge, 0 on a corner
TargetFi(loc, o) ==
    IF NeighborType(o) = "neighbor_corner" THEN 0
    ELSE IF o[3] = 0 THEN loc.lx3 % 2
    ELSE IF o[2] = 0 THEN loc.lx2 % 2
    ELSE loc.lx1 % 2

\* the blocks that record the coarser block c in direction o for the slot fi
Senders(c, o, fi) ==
    {b \in Gids : \E i \in CoarserRecs(b) :
        /\ neighbor[b][i].gid = c /\ DirOf(neighbor[b][i]) = o
        /\ TargetFi(loclist[b], o) = fi}

\* the siblings of block b, b included, that record a coarser neighbor in
\* direction o
SibRecorders(b, o) ==
    {c \in Gids : /\ loclist[c].level = loclist[b].level
                  /\ ParentOf(loclist[c]) = ParentOf(loclist[b])
                  /\ \E i \in CoarserRecs(c) : DirOf(neighbor[c][i]) = o}

OnlyTouchingRecords ==
    \A b \in Gids : \A i \in CoarserRecs(b) :
        TouchesDirection(loclist[b], DirOf(neighbor[b][i]), dim)

OneSenderPerSlot ==
    \A c \in Gids : \A o \in AllDirs : \A fi \in {0, 1} :
        Cardinality(Senders(c, o, fi)) <= 1

\* C27 (as claimed): a block records a coarser edge or corner neighbor only in
\* a direction that its own offsets in its parent equal on every non-zero
\* axis; each buffer slot of a coarser neighbor has one fine block as its
\* sender; among the siblings of one parent one records the coarser neighbor
\* of a direction; and the buffer ids are the fixed slots of the directions,
\* skipped ones included.
C27_OneSenderPerCoarseSlot ==
    mpc = "built" =>
        /\ OnlyTouchingRecords
        /\ OneSenderPerSlot
        /\ \A b \in Gids : \A o \in AllDirs : Cardinality(SibRecorders(b, o)) <= 1
        /\ \A b \in Gids :
              InFixedSlots(neighbor[b], 1, Directions(dim, face_only), 1, 0, dim,
                           multilevel)

\* what holds on the level-balanced meshes: the records are those of the
\* touching siblings, a slot has one sender, and one sibling records the
\* coarser neighbor of a corner
C27_OneSenderIfBalanced ==
    (mpc = "built" /\ LevelBalanced(tree)) =>
        /\ OnlyTouchingRecords
        /\ OneSenderPerSlot
        /\ \A b \in Gids : \A o \in {-1, 1} \X {-1, 1} \X {-1, 1} :
              Cardinality(SibRecorders(b, o)) <= 1

--------------------------------------------------------------------------
(* Routing ids of the neighbors: the restart constructor from LoadBalancing *)
(* on, mesh.cpp 712-746, with the costs that the file holds                 *)

\* the state after lines 596-693: header and id list are read, the tree is
\* rebuilt, the rank arrays are allocated and not yet written
InitNR ==
    /\ \E g \in RestartGrids :
          /\ dim = g[1] /\ nrbx1 = g[2] /\ nrbx2 = g[3] /\ nrbx3 = g[4]
          /\ root_level = RootLevelOf(Max(g[2], Max(g[3], g[4])))
          /\ tree \in {u \in TreesWithin(1, g[1], g[2], g[3], g[4],
                                         RootLevelOf(Max(g[2], Max(g[3], g[4])))) :
                         CountMeshBlock(u) <= MaxFlagBlocks}
    /\ loclist = GetMeshBlockList(tree, dim)
    /\ nbtotal = CountMeshBlock(tree)
    /\ multilevel = (\E l \in tree : l.level # root_level)
    /\ current_level = IF multilevel THEN root_level + 1 ELSE root_level
    /\ mesh_bcs = BCsOf("reflecting", "reflecting", "reflecting")
    /\ mhd = FALSE /\ face_only = ~multilevel /\ nregions = 0
    /\ neighbor = <<>> /\ nbuilt = 0 /\ mpc = "idle"
    /\ nranks \in 1..Min(MaxRanks, nbtotal)
    /\ my_rank \in 0..(nranks-1)
    /\ test_flag = 0 /\ reported = FALSE
    /\ costlist \in [0..(nbtotal-1) -> {1, MaxCost}]
    /\ \E g \in GarbageVals :
          /\ ranklist = [i \in 0..(nbtotal-1) |-> g]
          /\ nslist = [i \in 0..(nranks-1) |-> g]
          /\ nblist = [i \in 0..(nranks-1) |-> g]
    /\ lbpc = "new"
    /\ wmesh = [root_level |-> root_level, nbtotal |-> nbtotal, loclist |-> loclist,
                costlist |-> costlist]
    /\ resfile = [nbtotal |-> nbtotal, root_level |-> root_level,
                  idlist |-> WriteIdList(loclist, costlist, nbtotal),
                  cut |-> NoCut, damaged |-> FALSE]
    /\ offset = [i \in 0..(nbtotal-1) |-> PayloadOffset(i, nbtotal)]
    /\ nread = nbtotal /\ nerr = 0 /\ nbstart = 0 /\ nbend = 0 /\ pblocks = <<>>
    /\ rpc = "balance"

NextNR == BalanceRestart \/ LoadBlock \/ FinishRestart

StartNR == InitNR /\ IdleTS /\ IdleTK /\ IdleCK /\ IdleMR /\ IdleRC /\ IdleIN /\ IdleRG

SpecNR == StartNR /\ [][NextNR]_vars

\* lines 447-452 and 714-719 on rank r: the blocks nbstart..nbend that rank r
\* builds, giving block i the local id i - nbstart (543-548, 732-739)
BuiltBy(r) ==
    IF r \notin DOMAIN nslist THEN {}
    ELSE nslist[r]..(IF r + 1 = nranks THEN nbtotal - 1 ELSE nslist[r + 1] - 1)

RoutingConsistent ==
    \A b \in DOMAIN neighbor : \A i \in 1..Len(neighbor[b]) :
        LET r == neighbor[b][i]
        IN  /\ r.gid \in DOMAIN ranklist
            /\ r.rank = ranklist[r.gid]
            /\ r.rank \in DOMAIN nslist
            /\ r.lid = r.gid - nslist[r.rank]
            /\ r.gid \in BuiltBy(r.rank)

\* C30 (as claimed): every NeighborBlock recorded has rank = ranklist[gid] and
\* lid = gid - nslist[rank], and the rank it names builds block gid under that
\* local id, whatever the costs that LoadBalancing was given.
C30_RoutingIds ==
    rpc \in {"load", "restarted"} => RoutingConsistent

\* the same when every block has the cost 1.0 that the fresh constructor sets
\* and the leaves are level balanced
C30_RoutingIfUnitCosts ==
    (/\ rpc \in {"load", "restarted"}
     /\ \A i \in DOMAIN costlist : costlist[i] = 1
     /\ LevelBalanced(tree))
        => RoutingConsistent

\* the costs alone break it: on the level-balanced meshes
C30_RoutingIfBalanced ==
    (rpc \in {"load", "restarted"} /\ LevelBalanced(tree)) => RoutingConsistent

==========================================================================
